---- MODULE Spec2Model ----
(***************************************************************************)
(* ReflectAI backend: the Celery job queue and its status endpoint, the    *)
(* vectorization tasks, the clustering task and the relational rows a      *)
(* clustering run owns.                                                    *)
(*                                                                         *)
(* Optional values (Python None) are sets of at most one element; an       *)
(* absent embedding is 0.                                                  *)
(***************************************************************************)
EXTENDS Integers, Sequences, FiniteSets, TLC

\* ---------------------------------------------------------------- bounds
MaxEntries == 2
MaxJobs == 2
NumWorkers == 2
MaxOutage == 12

Users == {1, 2}
Contents == {1, 2}
Workers == 1..NumWorkers

VARIABLES
    entries,      \* table journal_entries (committed rows), indexed by id
    jobs,         \* the broker queue and result backend, indexed by task id
    worker,       \* per worker process: the task it executes and its locals
    upd,          \* update_entry requests between enqueue and commit
    out,          \* the response of the request handler that ran last
    runs,         \* table clustering_runs
    clusters,     \* table clusters
    assignments,  \* table entry_cluster_assignments
    clock,        \* wall clock read by run_timestamp's default
    run_id_seq,   \* the sequence behind clustering_runs.id
    broker,       \* connection attempts the broker refuses before it accepts one
    server        \* the request-serving process: its module globals and the
                  \* computations it has run itself

vars ==
    <<entries, jobs, worker, upd, out, runs, clusters, assignments, clock, run_id_seq,
      broker, server>>

clusterVars == <<runs, clusters, assignments, clock, run_id_seq>>

\* ------------------------------------------------------ celery_app.conf
task_track_started_off == FALSE

task_track_started == TRUE

broker_connection_retry == TRUE

broker_connection_max_retries == 10

\* Connecting to the broker for a submission: the first attempt and, with
\* broker_connection_retry, at most broker_connection_max_retries further
\* ones; the submission fails when the broker refuses them all.
Attempts ==
    IF broker_connection_retry THEN 1 + broker_connection_max_retries ELSE 1

Connects == broker < Attempts

\* ------------------------------------------------- embedding collaborator
\* model.encode(text, normalize_embeddings=True): a function of the text.
Emb(c) == 10 + c

\* model.encode(list): one vector per text, in the order of the texts.
Encode(texts) == [i \in 1..Len(texts) |-> Emb(texts[i])]

\* len(tokenizer.encode(text))
TokenCount(c) == c + 2

\* the maximum length the embedding service supports, in characters
\* (generate_embedding(text, max_length=8192))
max_length == 8192

\* len(text): text 1 fills the maximum length, text 2 is twice as long
Chars(c) == c * max_length

\* len(embedding) of a BGE-M3 vector
EmbeddingDim == 1024

\* ------------------------------------------------------------- rows
JournalEntry(u, c) == [user |-> u, content |-> c, embedding |-> 0]

Job(kind, arg) ==
    [kind |-> kind, arg |-> arg, state |-> "PENDING", retval |-> {}, exc |-> {}]

\* A worker process that has just started and runs no task: no session
\* (DatabaseTask._db is None) and no embedding model (_embedding_model is
\* None, _models_loaded is False); loads counts the constructions of the
\* SentenceTransformer in the process.
Idle ==
    [job |-> 0, pc |-> "idle", ids |-> <<>>, texts |-> <<>>, run |-> 0, raw |-> {},
     db |-> 0, model |-> FALSE, loads |-> 0]

NoOut == [op |-> "none"]

\* ------------------------------------------------------------ helpers
RECURSIVE Perms(_)
Perms(S) ==
    IF S = {} THEN {<<>>}
    ELSE UNION {{<<x>> \o p : p \in Perms(S \ {x})} : x \in S}

\* ------------------------------------------------------ request handlers
\* The threads of the serving process that can run load_models: the
\* preloading thread that lifespan starts, and threads of the pool that runs
\* the request handlers.
Threads == {"preload", "handler1", "handler2"}

\* main.py after import: emotion_classifier and embedding_model are None,
\* models_loaded is False and no thread runs; loads counts the constructions
\* of each model in the process.
Started ==
    [emotion_classifier |-> FALSE, embedding_model |-> FALSE, models_loaded |-> FALSE,
     loads |-> [emotion_classifier |-> 0, embedding_model |-> 0],
     thread |-> [t \in Threads |-> "idle"],
     calls |-> {}]

\* task.delay(...): the broker accepts the message and the job is PENDING.
Delay(kind, arg) == Append(jobs, Job(kind, arg))

\* create_entry enqueueing the job for the id of a row it has not committed
create_entry_uncommitted(u, c) ==
    /\ Len(entries) < MaxEntries
    /\ Len(jobs) < MaxJobs
    /\ \E committed \in BOOLEAN :
          entries' = IF committed THEN Append(entries, JournalEntry(u, c)) ELSE entries
    /\ jobs' = Delay("vectorize_entry", Len(entries) + 1)
    /\ out' = [op |-> "create_entry", code |-> 200, entry_id |-> Len(entries) + 1]
    /\ UNCHANGED <<worker, upd, clusterVars, broker, server>>

\* create_entry computing the embedding of the new entry in the request
create_entry_inline(u, c) ==
    /\ Len(entries) < MaxEntries
    /\ entries' = Append(entries, [JournalEntry(u, c) EXCEPT !.embedding = Emb(c)])
    /\ jobs' = jobs
    /\ out' = [op |-> "create_entry", code |-> 200, entry_id |-> Len(entries) + 1]
    /\ UNCHANGED <<worker, upd, clusterVars, broker, server>>

\* create_entry without the try/except around vectorize_entry.delay: the
\* exception of the submission reaches the caller as a 500
create_entry_unhandled(u, c) ==
    /\ Len(entries) < MaxEntries
    /\ entries' = Append(entries, JournalEntry(u, c))
    /\ \E queued \in BOOLEAN :
          /\ queued => Len(jobs) < MaxJobs
          /\ jobs' = IF queued THEN Delay("vectorize_entry", Len(entries) + 1)
                     ELSE jobs
          /\ out' = [op |-> "create_entry",
                     code |-> IF queued THEN 200 ELSE 500,
                     entry_id |-> Len(entries) + 1]
    /\ UNCHANGED <<worker, upd, clusterVars, broker, server>>

\* create_entry (main.py 353-377): the row is committed, then the job is
\* enqueued; a failure to enqueue is logged and ignored.
create_entry(u, c) ==
    /\ Len(entries) < MaxEntries
    /\ entries' = Append(entries, JournalEntry(u, c))
    /\ \E queued \in BOOLEAN :
          /\ queued => Len(jobs) < MaxJobs
          /\ jobs' = IF queued THEN Delay("vectorize_entry", Len(entries) + 1)
                     ELSE jobs
    /\ out' = [op |-> "create_entry", code |-> 200, entry_id |-> Len(entries) + 1]
    /\ UNCHANGED <<worker, upd, clusterVars, broker, server>>

Owned(u, e) == e \in DOMAIN entries /\ entries[e].user = u

\* update_entry up to and including vectorize_entry.delay (main.py 416-433):
\* 404 for an entry that is missing or of another user; otherwise the new
\* content is in the request's session only and the job is enqueued (a
\* failure to enqueue is logged and ignored).
update_entry_enqueue(u, e, c) ==
    /\ e \in 1..MaxEntries
    /\ upd = {}
    /\ IF ~Owned(u, e)
       THEN /\ out' = [op |-> "update_entry", code |-> 404, entry_id |-> e]
            /\ UNCHANGED <<jobs, upd>>
       ELSE /\ \E queued \in BOOLEAN :
                  /\ queued => Len(jobs) < MaxJobs
                  /\ jobs' = IF queued THEN Delay("vectorize_entry", e) ELSE jobs
                  /\ upd' = {[entry |-> e, content |-> c,
                              task |-> IF queued THEN {Len(jobs) + 1} ELSE {}]}
            /\ out' = NoOut
    /\ UNCHANGED <<entries, worker, clusterVars, broker, server>>

\* update_entry's db.commit() and response (main.py 435-437).
update_entry_commit ==
    /\ \E r \in upd :
          /\ entries' = [entries EXCEPT ![r.entry].content = r.content]
          /\ out' = [op |-> "update_entry", code |-> 200, entry_id |-> r.entry]
    /\ upd' = {}
    /\ UNCHANGED <<jobs, worker, clusterVars, broker, server>>

\* embed_entry looking the entry up by its id alone
embed_entry_unowned(u, e) ==
    /\ e \in 1..MaxEntries
    /\ IF e \notin DOMAIN entries
       THEN /\ out' = [op |-> "embed_entry", code |-> 404, task_id |-> {}]
            /\ jobs' = jobs
       ELSE \E queued \in BOOLEAN :
               /\ queued => Len(jobs) < MaxJobs
               /\ jobs' = IF queued THEN Delay("vectorize_entry", e) ELSE jobs
               /\ out' = IF queued
                         THEN [op |-> "embed_entry", code |-> 200,
                               task_id |-> {Len(jobs) + 1}]
                         ELSE [op |-> "embed_entry", code |-> 500, task_id |-> {}]
    /\ UNCHANGED <<entries, worker, upd, clusterVars, broker, server>>

embed_entry(u, e) ==
    /\ e \in 1..MaxEntries
    /\ IF ~Owned(u, e)
       THEN /\ out' = [op |-> "embed_entry", code |-> 404, task_id |-> {}]
            /\ jobs' = jobs
       ELSE \E queued \in BOOLEAN :
               /\ queued => Len(jobs) < MaxJobs
               /\ jobs' = IF queued THEN Delay("vectorize_entry", e) ELSE jobs
               /\ out' = IF queued
                         THEN [op |-> "embed_entry", code |-> 200,
                               task_id |-> {Len(jobs) + 1}]
                         ELSE [op |-> "embed_entry", code |-> 500, task_id |-> {}]
    /\ UNCHANGED <<entries, worker, upd, clusterVars, broker, server>>

\* embed_all_entries answering with a task id of its own making when the
\* submission failed
embed_all_entries_fabricated(u) ==
    /\ \E queued \in BOOLEAN :
          /\ queued => Len(jobs) < MaxJobs
          /\ jobs' = IF queued THEN Delay("vectorize_all_entries", u) ELSE jobs
          /\ out' = [op |-> "embed_all_entries", code |-> 200,
                     task_id |-> {Len(jobs) + 1}]
    /\ UNCHANGED <<entries, worker, upd, clusterVars, broker, server>>

embed_all_entries(u) ==
    /\ \E queued \in BOOLEAN :
          /\ queued => Len(jobs) < MaxJobs
          /\ jobs' = IF queued THEN Delay("vectorize_all_entries", u) ELSE jobs
          /\ out' = IF queued
                    THEN [op |-> "embed_all_entries", code |-> 200,
                          task_id |-> {Len(jobs) + 1}]
                    ELSE [op |-> "embed_all_entries", code |-> 500, task_id |-> {}]
    /\ UNCHANGED <<entries, worker, upd, clusterVars, broker, server>>

\* get_task_status with the test of task_result.successful() inverted.
TaskStatusResponseInverted(tid, state, retval, exc) ==
    LET ready == state \in {"SUCCESS", "FAILURE", "REVOKED"}
        successful == state = "SUCCESS"
    IN [op |-> "get_task_status",
        task_id |-> tid,
        status |-> state,
        result |-> IF ready
                   THEN (IF ~successful THEN retval ELSE {})
                   ELSE IF state = "PENDING"
                        THEN {[message |-> "Task is waiting to be processed"]}
                        ELSE IF state = "STARTED"
                             THEN {[message |-> "Task is being processed"]}
                             ELSE {},
        error |-> IF ready /\ successful THEN {"None"} ELSE {}]

\* get_task_status: AsyncResult(task_id) of a task id the backend does not
\* know reports PENDING.
TaskStatusResponse(tid, state, retval, exc) ==
    LET ready == state \in {"SUCCESS", "FAILURE", "REVOKED"}
        successful == state = "SUCCESS"
    IN [op |-> "get_task_status",
        task_id |-> tid,
        status |-> state,
        result |-> IF ready
                   THEN (IF successful THEN retval ELSE {})
                   ELSE IF state = "PENDING"
                        THEN {[message |-> "Task is waiting to be processed"]}
                        ELSE IF state = "STARTED"
                             THEN {[message |-> "Task is being processed"]}
                             ELSE {},
        error |-> IF ready /\ ~successful THEN exc ELSE {}]

get_task_status(tid) ==
    /\ out' = IF tid \in DOMAIN jobs
              THEN TaskStatusResponse(tid, jobs[tid].state, jobs[tid].retval,
                                      jobs[tid].exc)
              ELSE TaskStatusResponse(tid, "PENDING", {}, {})
    /\ UNCHANGED <<entries, jobs, worker, upd, clusterVars, broker, server>>

\* get_task_status as called by user u: current_user is required
\* (Depends(require_auth), main.py 886) and not used
get_task_status_as(u, tid) == get_task_status(tid)

\* ------------------------------------------------------------- workers
\* DatabaseTask.after_return with the session left open
after_return_leak(p) == p

\* DatabaseTask.after_return: close the session, if any, and forget it
after_return(p) == [p EXCEPT !.db = 0]

\* DatabaseTask.db of the task that executes job j: the session the task
\* holds, a new one (SessionLocal(), named after the job) if it holds none
DatabaseTask_db(p, j) == IF p.db = 0 THEN j ELSE p.db

\* get_embedding_model constructing the model at every call
get_embedding_model_reload(p) == {[p EXCEPT !.model = TRUE, !.loads = @ + 1]}

\* get_embedding_model: the process as the call leaves it.  The cached model
\* is returned when there is one; otherwise SentenceTransformer(...) is
\* constructed and cached, or raises and nothing is cached.
get_embedding_model(p) ==
    IF p.model THEN {p}
    ELSE {[p EXCEPT !.model = TRUE, !.loads = @ + 1], p}

\* The worker process after its task ended: the task's locals are gone,
\* after_return has run, the module globals of the process stay.
Ended(p) ==
    after_return([Idle EXCEPT !.db = p.db, !.model = p.model, !.loads = p.loads])

\* A worker process takes the oldest message of the queue; with
\* task_track_started the backend records STARTED.
Unclaimed(j) ==
    /\ jobs[j].state = "PENDING"
    /\ \A w \in Workers : worker[w].job # j

\* A broker that leaves the message in the queue when a worker takes it.
ClaimWithoutAck(w) ==
    /\ worker[w].job = 0
    /\ \E j \in DOMAIN jobs :
          /\ jobs[j].state \in {"PENDING", "STARTED"}
          /\ jobs' = [jobs EXCEPT ![j].state =
                         IF task_track_started THEN "STARTED" ELSE @]
          /\ worker' = [worker EXCEPT ![w] = [@ EXCEPT !.job = j, !.pc = "start"]]
    /\ out' = NoOut
    /\ UNCHANGED <<entries, upd, clusterVars, broker, server>>

Claim(w) ==
    /\ worker[w].job = 0
    /\ \E j \in DOMAIN jobs :
          /\ Unclaimed(j)
          /\ \A k \in 1..(j - 1) : ~Unclaimed(k)
          /\ jobs' = [jobs EXCEPT ![j].state =
                         IF task_track_started THEN "STARTED" ELSE @]
          /\ worker' = [worker EXCEPT ![w] = [@ EXCEPT !.job = j, !.pc = "start"]]
    /\ out' = NoOut
    /\ UNCHANGED <<entries, upd, clusterVars, broker, server>>

\* The task function returned `payload`: the backend stores SUCCESS with the
\* return value, and after_return closes the session.
Return(w, payload) ==
    /\ jobs' = [jobs EXCEPT ![worker[w].job] =
                   [@ EXCEPT !.state = "SUCCESS", !.retval = {payload}]]
    /\ worker' = [worker EXCEPT ![w] = Ended(@)]
    /\ out' = NoOut

Running(w, kind, pc) ==
    /\ worker[w].job # 0
    /\ jobs[worker[w].job].kind = kind
    /\ worker[w].pc = pc

\* A hard time limit that terminates the child process and records nothing.
HardTimeLimitSilent(w) ==
    /\ worker[w].job # 0
    /\ worker' = [worker EXCEPT ![w] = Idle]
    /\ out' = NoOut
    /\ UNCHANGED <<entries, jobs, upd, clusterVars, broker, server>>

\* Killed by the hard time limit (task_time_limit): the child process is
\* terminated, its uncommitted session is lost and the backend records
\* FAILURE; a new child process takes its place.
HardTimeLimit(w) ==
    /\ worker[w].job # 0
    /\ jobs' = [jobs EXCEPT ![worker[w].job] =
                   [@ EXCEPT !.state = "FAILURE",
                             !.exc = {"TimeLimitExceeded(1800,)"}]]
    /\ worker' = [worker EXCEPT ![w] = Idle]
    /\ out' = NoOut
    /\ UNCHANGED <<entries, upd, clusterVars, broker, server>>

\* --------------------------------------------------- tasks.vectorize_entry
EntryError(e, msg) == [status |-> "error", entry_id |-> e, message |-> msg]

\* The task raised `msg` and the exception left the task function: the
\* backend stores FAILURE with the exception.
Raise(w, msg) ==
    /\ jobs' = [jobs EXCEPT ![worker[w].job] =
                   [@ EXCEPT !.state = "FAILURE", !.exc = {msg}]]
    /\ worker' = [worker EXCEPT ![w] = Ended(@)]
    /\ out' = NoOut

vectorize_entry_reraise(w, e, msg) == Raise(w, msg)

\* The except block (tasks.py 111-119): roll back, return the error payload.
vectorize_entry_except(w, e, msg) == Return(w, EntryError(e, msg))

EntrySuccess(e, c) ==
    [status |-> "success", entry_id |-> e, token_count |-> TokenCount(c),
     embedding_dimension |-> EmbeddingDim,
     message |-> "Successfully generated embedding"]

\* db = self.db; db.query(JournalEntry).filter(id == entry_id).first();
\* model = get_embedding_model()  (tasks.py 77-89).  An exception of the
\* model's construction is one of the embedding service.
vectorize_entry_fetch(w) ==
    /\ Running(w, "vectorize_entry", "start")
    /\ LET e == jobs[worker[w].job].arg IN
       \E exc \in {"none", "query failed"} :
          IF exc # "none"
          THEN vectorize_entry_except(w, e, exc)
          ELSE IF e \notin DOMAIN entries
               THEN Return(w, EntryError(e, "Entry not found"))
               ELSE \E p \in get_embedding_model(worker[w]) :
                       IF ~p.model
                       THEN vectorize_entry_except(w, e, "embedding service error")
                       ELSE /\ worker' = [worker EXCEPT ![w] =
                                   [p EXCEPT !.pc = "store",
                                             !.db = DatabaseTask_db(p, p.job),
                                             !.ids = <<e>>,
                                             !.texts = <<entries[e].content>>]]
                            /\ UNCHANGED <<jobs>>
                            /\ out' = NoOut
    /\ UNCHANGED <<entries, upd, clusterVars, broker, server>>

\* model.encode(entry.content); entry.embedding = embedding; db.commit()
\* (tasks.py 88-119): the embedding of the content read by the fetch reaches
\* the row's embedding column, unless the embedding service or the commit
\* raises; the handler then rolls back and returns the error payload.
vectorize_entry_store(w) ==
    /\ Running(w, "vectorize_entry", "store")
    /\ LET e == worker[w].ids[1] IN
       \E exc \in {"none", "embedding service error", "commit failed"} :
          IF exc # "none"
          THEN /\ vectorize_entry_except(w, e, exc)
               /\ UNCHANGED entries
          ELSE /\ entries' = [entries EXCEPT ![e].embedding = Emb(worker[w].texts[1])]
               /\ Return(w, EntrySuccess(e, worker[w].texts[1]))
    /\ UNCHANGED <<upd, clusterVars, broker, server>>

\* --------------------------------------------- tasks.vectorize_all_entries
BatchError(u, msg) == [status |-> "error", user_id |-> u, message |-> msg]

vectorize_all_reraise(w, u, msg) == Raise(w, msg)

\* The except block (tasks.py 182-190): roll back, return the error payload.
vectorize_all_except(w, u, msg) == Return(w, BatchError(u, msg))

BatchSuccess(u, total, results) ==
    [status |-> "success", user_id |-> u, total_entries |-> total,
     processed_count |-> Len(results), results |-> results]

\* the per-entry result appended inside the loop (tasks.py 166-171)
BatchItem(e, c) ==
    [entry_id |-> e, token_count |-> TokenCount(c),
     embedding_dimension |-> EmbeddingDim, status |-> "success"]

\* the query without the filter on the embedding column
AllEntriesOf(u) == {e \in DOMAIN entries : entries[e].user = u}

\* the query without the filter on user_id
LackingEmbeddingAnyUser(u) == {e \in DOMAIN entries : entries[e].embedding = 0}

\* filter(user_id == user_id, embedding == None)
LackingEmbedding(u) ==
    {e \in DOMAIN entries : entries[e].user = u /\ entries[e].embedding = 0}

\* db = self.db, the query and model = get_embedding_model() (tasks.py
\* 135-153).  The query has no ORDER BY: the rows come back in any order.
vectorize_all_fetch(w) ==
    /\ Running(w, "vectorize_all_entries", "start")
    /\ LET u == jobs[worker[w].job].arg IN
       \E exc \in {"none", "query failed"} :
          IF exc # "none"
          THEN vectorize_all_except(w, u, exc)
          ELSE IF LackingEmbedding(u) = {}
               THEN Return(w, BatchSuccess(u, 0, <<>>))
               ELSE \E p \in get_embedding_model(worker[w]) :
                       IF ~p.model
                       THEN vectorize_all_except(w, u, "embedding service error")
                       ELSE \E ids \in Perms(LackingEmbedding(u)) :
                               /\ worker' = [worker EXCEPT ![w] =
                                      [p EXCEPT
                                         !.pc = "store",
                                         !.db = DatabaseTask_db(p, p.job),
                                         !.ids = ids,
                                         !.texts = [i \in DOMAIN ids |->
                                                       entries[ids[i]].content]]]
                               /\ UNCHANGED <<jobs>>
                               /\ out' = NoOut
    /\ UNCHANGED <<entries, upd, clusterVars, broker, server>>

ZipReversed(ids, vecs) ==
    [i \in 1..Len(ids) |-> [entry |-> ids[i], embedding |-> vecs[Len(ids) + 1 - i]]]

\* zip(entries, embeddings): the i-th fetched entry gets the i-th vector.
Zip(ids, vecs) == [i \in 1..Len(ids) |-> [entry |-> ids[i], embedding |-> vecs[i]]]

\* db.commit(): every pending assignment reaches its row in one transaction.
Commit(db, pending) ==
    [e \in DOMAIN db |->
        IF \E i \in DOMAIN pending : pending[i].entry = e
        THEN [db[e] EXCEPT !.embedding =
                 pending[CHOOSE i \in DOMAIN pending : pending[i].entry = e].embedding]
        ELSE db[e]]

\* A commit inside the loop: the assignments made before the exception stay.
RollbackPartial(db, pending, done) == Commit(db, SubSeq(pending, 1, done))

\* db.rollback() after an exception raised when the first `done` pending
\* assignments had been made in the session: nothing was flushed, the rows
\* are as they were.
Rollback(db, pending, done) == db

\* embeddings = model.encode(contents), the loop, the commit and the return
\* (tasks.py 152-190). failedAt = 0: no exception; failedAt = 1: raised by
\* model.encode; failedAt = 1 + k: raised in iteration k of the loop;
\* failedAt = Len(ids) + 2: raised by db.commit().
vectorize_all_store(w) ==
    /\ Running(w, "vectorize_all_entries", "store")
    /\ LET u == jobs[worker[w].job].arg
           ids == worker[w].ids
           pending == Zip(ids, Encode(worker[w].texts))
       IN \E failedAt \in 0..(Len(ids) + 2) :
             IF failedAt # 0
             THEN /\ entries' = Rollback(entries, pending,
                                         IF failedAt = 1 THEN 0 ELSE failedAt - 2)
                  /\ vectorize_all_except(w, u,
                         IF failedAt = 1 THEN "embedding service error"
                         ELSE IF failedAt = Len(ids) + 2 THEN "commit failed"
                         ELSE "tokenizer error")
             ELSE /\ entries' = Commit(entries, pending)
                  /\ Return(w, BatchSuccess(u, Len(ids),
                         [i \in DOMAIN ids |-> BatchItem(ids[i], worker[w].texts[i])]))
    /\ UNCHANGED <<upd, clusterVars, broker, server>>

\* ------------------------------------------------- clustering parameters
MaxClusters == 2

\* membership probabilities 0, 1/2 and 1, in halves
Probs == {0, 1, 2}

\* membership_threshold of the request, on the same scale
Thresholds == {1, 2}

\* optional (start_date, end_date) of the request; 0 is None, and an entry's
\* created_at is the order of its id
DateRanges == {<<0, 0>>, <<2, 0>>}

ClusteringRunRequest == [range : DateRanges, threshold : Thresholds]

\* the keyword arguments of run_clustering_task.delay (main.py 699-710)
ClusterArgs(u, req) == [user |-> u, range |-> req.range, threshold |-> req.threshold]

create_clustering_run(u, req) ==
    /\ \E queued \in BOOLEAN :
          /\ queued => Len(jobs) < MaxJobs
          /\ jobs' = IF queued
                     THEN Delay("run_clustering", ClusterArgs(u, req))
                     ELSE jobs
          /\ out' = IF queued
                    THEN [op |-> "create_clustering_run", code |-> 200,
                          task_id |-> {Len(jobs) + 1}]
                    ELSE [op |-> "create_clustering_run", code |-> 500,
                          task_id |-> {}]
    /\ UNCHANGED <<entries, worker, upd, clusterVars, broker, server>>

\* ------------------------------------------ hdbscan_clustering.run_clustering
InRange(e, range) ==
    /\ range[1] = 0 \/ e >= range[1]
    /\ range[2] = 0 \/ e <= range[2]

\* the user's entries with a stored embedding inside the date range
Eligible(u, range) ==
    {e \in DOMAIN entries :
        /\ entries[e].user = u
        /\ entries[e].embedding # 0
        /\ InRange(e, range)}

\* Raw output of projection and soft clustering over the entries E: k
\* clusters 0..k-1 and a membership probability per entry and cluster.  Fewer
\* than two entries are not clustered: no cluster.
RawOutputs(E) ==
    IF Cardinality(E) < 2
    THEN {[k |-> 0, prob |-> [e \in E |-> <<>>]]}
    ELSE UNION {{[k |-> k, prob |-> p] : p \in [E -> [1..k -> Probs]]}
                   : k \in 0..MaxClusters}

RetainedAll(raw, e, t) == 1..raw.k

\* cluster c of the raw output has native index c - 1
Retained(raw, e, t) == {c \in 1..raw.k : raw.prob[e][c] >= t}

PrimaryAmongTied(raw, e, t, c) ==
    /\ c \in Retained(raw, e, t)
    /\ \A d \in Retained(raw, e, t) : raw.prob[e][d] <= raw.prob[e][c]

PrimaryHigherIndex(raw, e, t, c) ==
    /\ c \in Retained(raw, e, t)
    /\ \A d \in Retained(raw, e, t) :
          \/ raw.prob[e][d] < raw.prob[e][c]
          \/ raw.prob[e][d] = raw.prob[e][c] /\ c >= d

\* the retained membership with the highest probability, the lower cluster
\* index among equals
Primary(raw, e, t, c) ==
    /\ c \in Retained(raw, e, t)
    /\ \A d \in Retained(raw, e, t) :
          \/ raw.prob[e][d] < raw.prob[e][c]
          \/ raw.prob[e][d] = raw.prob[e][c] /\ c <= d

NoiseRowDefault(id, e) ==
    [run |-> id, entry |-> e, cluster_id |-> -1, membership_probability |-> 0,
     is_primary |-> FALSE]

\* an entry with no retained membership: cluster index -1, primary
NoiseRow(id, e) ==
    [run |-> id, entry |-> e, cluster_id |-> -1, membership_probability |-> 0,
     is_primary |-> TRUE]

\* the EntryClusterAssignment rows of run `id`: one per retained membership,
\* one noise row for an entry that retains none
Resolve(id, E, raw, t) ==
    UNION {IF Retained(raw, e, t) = {}
           THEN {NoiseRow(id, e)}
           ELSE {[run |-> id, entry |-> e, cluster_id |-> c - 1,
                  membership_probability |-> raw.prob[e][c],
                  is_primary |-> Primary(raw, e, t, c)]
                    : c \in Retained(raw, e, t)}
             : e \in E}

\* one Cluster row per cluster index produced, sized by its primary members
ClusterRows(id, raw, rows, label) ==
    {[run |-> id, cluster_id |-> c - 1,
      size |-> Cardinality({a \in rows : a.cluster_id = c - 1 /\ a.is_primary}),
      topic_label |-> label]
        : c \in 1..raw.k}

RunRow(id, arg, ts, E, raw, rows) ==
    [id |-> id, user |-> arg.user, run_timestamp |-> ts,
     num_entries |-> Cardinality(E), num_clusters |-> raw.k,
     membership_threshold |-> arg.threshold,
     noise_entries |-> Cardinality({a \in rows : a.cluster_id = -1}),
     range |-> arg.range]

ClusterError(u, msg) == [status |-> "error", user_id |-> u, message |-> msg]

\* The except block of run_clustering_task (tasks.py 290-295)
run_clustering_except(w, u, msg) == Return(w, ClusterError(u, msg))

\* run_clustering replacing the user's earlier runs instead of adding one
run_clustering_replace(w) ==
    /\ Running(w, "run_clustering", "start")
    /\ LET arg == jobs[worker[w].job].arg
           E == Eligible(arg.user, arg.range)
           old == {r.id : r \in {q \in runs : q.user = arg.user}}
           id == run_id_seq + 1
       IN \E raw \in RawOutputs(E) :
             LET rows == Resolve(id, E, raw, arg.threshold) IN
             /\ clock' = clock + 1
             /\ run_id_seq' = id
             /\ runs' = {r \in runs : r.id \notin old}
                           \cup {RunRow(id, arg, clock + 1, E, raw, rows)}
             /\ assignments' = {a \in assignments : a.run \notin old} \cup rows
             /\ clusters' = {c \in clusters : c.run \notin old}
                               \cup ClusterRows(id, raw, rows, {})
             /\ worker' = [worker EXCEPT ![w].pc = "latest", ![w].run = id,
                                           ![w].raw = {raw}]
             /\ UNCHANGED jobs
             /\ out' = NoOut
    /\ UNCHANGED <<entries, upd, broker, server>>

\* run_clustering(...) as called by the task (tasks.py 242-264): select,
\* project, cluster, resolve, then persist the run and its rows in one
\* transaction and label the clusters (best effort).  An exception of the
\* projection, of the clustering or of the commit leaves no row.
run_clustering(w) ==
    /\ Running(w, "run_clustering", "start")
    /\ LET arg == jobs[worker[w].job].arg
           E == Eligible(arg.user, arg.range)
           id == run_id_seq + 1
       IN \E exc \in {"none", "projection failed", "commit failed"} :
             IF exc # "none"
             THEN /\ run_clustering_except(w, arg.user, exc)
                  /\ UNCHANGED clusterVars
             ELSE \E raw \in RawOutputs(E), label \in {{}, {"topic"}} :
                     LET rows == Resolve(id, E, raw, arg.threshold) IN
                     /\ clock' = clock + 1
                     /\ run_id_seq' = id
                     /\ runs' = runs \cup {RunRow(id, arg, clock + 1, E, raw, rows)}
                     /\ assignments' = assignments \cup rows
                     /\ clusters' = clusters \cup ClusterRows(id, raw, rows, label)
                     /\ worker' = [worker EXCEPT ![w].pc = "latest", ![w].run = id,
                                                   ![w].raw = {raw}]
                     /\ UNCHANGED jobs
                     /\ out' = NoOut
    /\ UNCHANGED <<entries, upd, broker, server>>

\* ------------------------------------------------- models.ClusteringRun
\* A run deleted through a relationship declared without cascade.
delete_run_no_cascade(id) ==
    /\ \E r \in runs : r.id = id
    /\ runs' = {r \in runs : r.id # id}
    /\ out' = NoOut
    /\ UNCHANGED <<entries, jobs, worker, upd, clusters, assignments, clock,
                   run_id_seq, broker, server>>

\* db.delete(run); db.commit() under the declared cascades: the relationships
\* clusters and assignments are cascade="all, delete-orphan" and both
\* run_id foreign keys are ondelete="CASCADE".
delete_run(id) ==
    /\ \E r \in runs : r.id = id
    /\ runs' = {r \in runs : r.id # id}
    /\ clusters' = {c \in clusters : c.run # id}
    /\ assignments' = {a \in assignments : a.run # id}
    /\ out' = NoOut
    /\ UNCHANGED <<entries, jobs, worker, upd, clock, run_id_seq, broker, server>>

\* ----------------------------------------------- tasks.run_clustering_task
\* order_by(run_timestamp.desc()).first() over the user's runs
LatestRuns(u) ==
    {r \in runs :
        /\ r.user = u
        /\ \A q \in runs : q.user = u => q.run_timestamp <= r.run_timestamp}

ClusterSuccessSwapped(r) ==
    [status |-> "success", user_id |-> r.user, run_id |-> r.id,
     num_entries |-> r.num_entries, num_clusters |-> r.noise_entries,
     noise_entries |-> r.num_clusters, range |-> r.range]

ClusterSuccess(r) ==
    [status |-> "success", user_id |-> r.user, run_id |-> r.id,
     num_entries |-> r.num_entries, num_clusters |-> r.num_clusters,
     noise_entries |-> r.noise_entries, range |-> r.range]

\* the query for the most recent run and the return (tasks.py 266-295)
run_clustering_latest(w) ==
    /\ Running(w, "run_clustering", "latest")
    /\ LET u == jobs[worker[w].job].arg.user IN
       \E exc \in {"none", "query failed"} :
          IF exc # "none"
          THEN run_clustering_except(w, u, exc)
          ELSE IF LatestRuns(u) = {}
               THEN Return(w, ClusterError(u, "Clustering completed but no run was found"))
               ELSE \E r \in LatestRuns(u) : Return(w, ClusterSuccess(r))
    /\ UNCHANGED <<entries, upd, clusterVars, broker, server>>

\* --------------------------------------------- clustering read endpoints
\* order_by(run_timestamp) without desc()
OldestFirst(seq) ==
    \A i, j \in DOMAIN seq :
        i < j => seq[i].run_timestamp <= seq[j].run_timestamp

\* order_by(run_timestamp.desc()): rows of equal timestamp in any order
NewestFirst(seq) ==
    \A i, j \in DOMAIN seq :
        i < j => seq[i].run_timestamp >= seq[j].run_timestamp

ClusteringRunResponse(r) ==
    [id |-> r.id, run_timestamp |-> r.run_timestamp, num_entries |-> r.num_entries,
     num_clusters |-> r.num_clusters, membership_threshold |-> r.membership_threshold,
     noise_entries |-> r.noise_entries]

get_clustering_runs(u) ==
    /\ \E seq \in Perms({r \in runs : r.user = u}) :
          /\ NewestFirst(seq)
          /\ out' = [op |-> "get_clustering_runs", code |-> 200, user |-> u,
                     runs |-> [i \in DOMAIN seq |-> ClusteringRunResponse(seq[i])]]
    /\ UNCHANGED <<entries, jobs, worker, upd, clusterVars, broker, server>>

\* the user's entries with an embedding, order_by(created_at.asc())
RECURSIVE Ascending(_)
Ascending(S) ==
    IF S = {} THEN <<>>
    ELSE LET x == CHOOSE y \in S : \A z \in S : y <= z
         IN <<x>> \o Ascending(S \ {x})

\* order_by(created_at.desc()): ids are given in the order of creation
Descending(S) ==
    LET asc == Ascending(S) IN [i \in DOMAIN asc |-> asc[Len(asc) + 1 - i]]

entry_to_response(e) ==
    [id |-> e, user_id |-> entries[e].user, content |-> entries[e].content,
     has_embedding |-> entries[e].embedding # 0]

\* get_entries without the filter on user_id
get_entries_unfiltered(u) ==
    /\ out' = [op |-> "get_entries", code |-> 200,
               entries |-> [i \in DOMAIN entries |->
                               entry_to_response(Len(entries) + 1 - i)]]
    /\ UNCHANGED <<entries, jobs, worker, upd, clusterVars, broker, server>>

get_entries(u) ==
    /\ LET rows == Descending({e \in DOMAIN entries : entries[e].user = u}) IN
       out' = [op |-> "get_entries", code |-> 200,
               entries |-> [i \in DOMAIN rows |-> entry_to_response(rows[i])]]
    /\ UNCHANGED <<entries, jobs, worker, upd, clusterVars, broker, server>>

get_entry(u, e) ==
    /\ e \in 1..MaxEntries
    /\ out' = IF ~Owned(u, e)
              THEN [op |-> "get_entry", code |-> 404, entries |-> <<>>]
              ELSE [op |-> "get_entry", code |-> 200,
                    entries |-> <<entry_to_response(e)>>]
    /\ UNCHANGED <<entries, jobs, worker, upd, clusterVars, broker, server>>

\* the loop without the test of is_primary: the row read last stays
EntryToClusterAny(id, e) == {a \in assignments : a.run = id /\ a.entry = e}

\* entry_to_cluster[e] after the loop over the run's assignments, which come
\* in any order: a primary row overwrites, another row only fills a gap.
EntryToCluster(id, e) ==
    LET rows == {a \in assignments : a.run = id /\ a.entry = e}
        primary == {a \in rows : a.is_primary}
    IN IF primary # {} THEN primary ELSE rows

\* f"Cluster {cluster_id}"
DefaultName(c) == [text |-> "Cluster", arg |-> {c}]

\* the Cluster rows queried without the filter on run_id
ClusterNamesAnyRun(id, c) ==
    LET rows == {k \in clusters : k.cluster_id = c} IN
    IF c = -1 THEN {[text |-> "Noise", arg |-> {}]}
    ELSE IF rows = {} THEN {[text |-> "Cluster", arg |-> {c}]}
    ELSE UNION {IF k.topic_label \subseteq {""} THEN {[text |-> "Cluster", arg |-> {c}]}
                ELSE {[text |-> l, arg |-> {}] : l \in k.topic_label}
                  : k \in rows}

\* cluster_info_map[c]['name'] of the run's Cluster rows (the topic label
\* unless it is None or empty), "Noise" for -1
ClusterNames(id, c) ==
    LET rows == {k \in clusters : k.run = id /\ k.cluster_id = c} IN
    IF c = -1 THEN {[text |-> "Noise", arg |-> {}]}
    ELSE IF rows = {} THEN {DefaultName(c)}
    ELSE UNION {IF k.topic_label \subseteq {""} THEN {DefaultName(c)}
                ELSE {[text |-> l, arg |-> {}] : l \in k.topic_label}
                  : k \in rows}

ClusterPoint(e, a, name) ==
    [entry_id |-> e, cluster_id |-> a.cluster_id, cluster_name |-> name,
     membership_probability |-> a.membership_probability]

ClusterInfoResponse(k) ==
    [cluster_id |-> k.cluster_id, size |-> k.size, topic_label |-> k.topic_label]

\* reducer.fit_transform(embeddings): the serving process has computed a
\* projection itself
Projected == [server EXCEPT !.calls = @ \cup {"fit_transform"}]

\* a visualization that stores what it shows: it keeps of the run only the
\* primary assignment of each entry
get_cluster_visualization_rewrite(u, id) ==
    /\ \E r \in runs : r.id = id /\ r.user = u
    /\ assignments' = {a \in assignments : a.run # id \/ a.is_primary}
    /\ out' = [op |-> "get_cluster_visualization", code |-> 200, run_id |-> id,
               points |-> <<>>, clusters |-> {}]
    /\ server' = Projected
    /\ UNCHANGED <<entries, jobs, worker, upd, runs, clusters, clock, run_id_seq, broker>>

get_cluster_visualization(u, id) ==
    /\ LET embedded == {e \in DOMAIN entries :
                           entries[e].user = u /\ entries[e].embedding # 0}
           shown == Ascending({e \in embedded :
                                 \E a \in assignments : a.run = id /\ a.entry = e})
           Err(code) == [op |-> "get_cluster_visualization", code |-> code,
                         run_id |-> id, points |-> <<>>, clusters |-> {}]
       IN IF ~\E r \in runs : r.id = id /\ r.user = u
          THEN out' = Err(404) /\ server' = server
          ELSE IF embedded = {} \/ shown = <<>>
          THEN out' = Err(400) /\ server' = server
          ELSE \E umap \in {"ok", "ImportError", "ValueError"} :
                  IF umap = "ImportError" THEN out' = Err(503) /\ server' = server
                  ELSE IF umap = "ValueError"
                  THEN out' = Err(500) /\ server' = Projected
                  ELSE \E pick \in [DOMAIN shown -> assignments] :
                          /\ \A i \in DOMAIN shown :
                                pick[i] \in EntryToCluster(id, shown[i])
                          /\ \E name \in [DOMAIN shown ->
                                  UNION {ClusterNames(id, pick[i].cluster_id)
                                            : i \in DOMAIN shown}] :
                                /\ \A i \in DOMAIN shown :
                                      name[i] \in ClusterNames(id, pick[i].cluster_id)
                                /\ out' = [op |-> "get_cluster_visualization",
                                           code |-> 200, run_id |-> id,
                                           points |-> [i \in DOMAIN shown |->
                                              ClusterPoint(shown[i], pick[i], name[i])],
                                           clusters |-> {ClusterInfoResponse(k) :
                                              k \in {c \in clusters : c.run = id}}]
                                /\ server' = Projected
    /\ UNCHANGED <<entries, jobs, worker, upd, clusterVars, broker>>

\* ---------------------------------------------------- similarity search
\* the texts of ad hoc queries
Queries == {1, 3}

\* top_k of a request: an int, 5 when the request does not give it
TopKs == {-1, 0, 1, 2, 5}

\* compute_cosine_similarity, in hundredths: the vectors are unit vectors
\* numbered by their angle, and the cosine falls with the square of the
\* angle between them
compute_cosine_similarity(vec1, vec2) == 100 - (vec1 - vec2) * (vec1 - vec2)

\* the pairs (entry, similarity) in the order of the candidates
Similarities(query_embedding, pool) ==
    [i \in DOMAIN pool |->
        [id |-> pool[i],
         similarity_score |->
            compute_cosine_similarity(query_embedding, entries[pool[i]].embedding)]]

\* x put before the elements of the descending list that do not exceed it
InsertBeforeEqual(x, sorted) ==
    LET n == Cardinality({i \in DOMAIN sorted :
                            sorted[i].similarity_score > x.similarity_score})
    IN SubSeq(sorted, 1, n) \o <<x>> \o SubSeq(sorted, n + 1, Len(sorted))

\* x put behind the elements of the descending list that are not below it
InsertAfterEqual(x, sorted) ==
    LET n == Cardinality({i \in DOMAIN sorted :
                            sorted[i].similarity_score >= x.similarity_score})
    IN SubSeq(sorted, 1, n) \o <<x>> \o SubSeq(sorted, n + 1, Len(sorted))

\* the list sorted ascending and then reversed
RECURSIVE SortReversed(_)
SortReversed(seq) ==
    IF seq = <<>> THEN <<>>
    ELSE InsertBeforeEqual(seq[Len(seq)], SortReversed(SubSeq(seq, 1, Len(seq) - 1)))

\* similarities.sort(key=lambda x: x[1], reverse=True): list.sort is stable,
\* also with reverse=True
RECURSIVE Sort(_)
Sort(seq) ==
    IF seq = <<>> THEN <<>>
    ELSE InsertAfterEqual(seq[Len(seq)], Sort(SubSeq(seq, 1, Len(seq) - 1)))

\* seq[:k] of a Python list: a negative k counts from the end
Slice(seq, k) ==
    IF k >= 0
    THEN SubSeq(seq, 1, IF k < Len(seq) THEN k ELSE Len(seq))
    ELSE SubSeq(seq, 1, IF Len(seq) + k > 0 THEN Len(seq) + k ELSE 0)

\* The answer of a search as `out` keeps it: the response, and with it
\* top_k of the request and the list `similarities` as it was before the
\* sort, in the order in which the query without ORDER BY returned the
\* candidates.
SearchOut(op, code, top_k, similarities, res) ==
    [op |-> op, code |-> code, top_k |-> top_k, similarities |-> similarities,
     results |-> res]

\* filter(id != entry_id, user_id == current_user.id, embedding != None)
OtherEntries(u, e) ==
    {o \in DOMAIN entries : o # e /\ entries[o].user = u /\ entries[o].embedding # 0}

\* filter(user_id == current_user.id, embedding != None)
WithEmbedding(u) ==
    {o \in DOMAIN entries : entries[o].user = u /\ entries[o].embedding # 0}

\* find_similar_entries (main.py 560-625)
find_similar_entries(u, e, top_k, other_entries) ==
    /\ other_entries \in Perms(OtherEntries(u, e))
    /\ out' = IF ~Owned(u, e)
              THEN SearchOut("find_similar_entries", 404, top_k, <<>>, <<>>)
              ELSE IF entries[e].embedding = 0
              THEN SearchOut("find_similar_entries", 400, top_k, <<>>, <<>>)
              ELSE SearchOut("find_similar_entries", 200, top_k,
                      Similarities(entries[e].embedding, other_entries),
                      Slice(Sort(Similarities(entries[e].embedding, other_entries)),
                            top_k))
    /\ UNCHANGED <<entries, jobs, worker, upd, clusterVars, broker, server>>

\* the globals after a call of load_models that no other thread interleaves
Loaded(s) ==
    [s EXCEPT !.emotion_classifier = TRUE, !.embedding_model = TRUE,
              !.models_loaded = TRUE,
              !.loads = [emotion_classifier |-> @.emotion_classifier + 1,
                         embedding_model |-> @.embedding_model + 1]]

\* load_models (main.py 62-88), run by the preloading thread of lifespan or
\* by require_embedding_model: the models are constructed in the serving
\* process
load_models ==
    /\ ~server.embedding_model
    /\ server' = Loaded(server)
    /\ UNCHANGED <<entries, jobs, worker, upd, out, clusterVars, broker>>

\* lifespan (main.py 92-115): with ENABLE_MODEL_PRELOAD the preloading
\* thread is started once and calls load_models
lifespan ==
    /\ server.thread["preload"] = "idle"
    /\ server' = [server EXCEPT !.thread["preload"] = "check"]
    /\ UNCHANGED <<entries, jobs, worker, upd, out, clusterVars, broker>>

\* require_emotion_model / require_embedding_model (main.py 236-249) in a
\* handler's thread: load_models is called when the global is None
require_model(t, global) ==
    /\ t # "preload"
    /\ server.thread[t] = "idle"
    /\ ~server[global]
    /\ server' = [server EXCEPT !.thread[t] = "check"]
    /\ UNCHANGED <<entries, jobs, worker, upd, out, clusterVars, broker>>

\* load_models, the test of its first line (main.py 66-68)
load_models_check(t) ==
    /\ server.thread[t] = "check"
    /\ server' = [server EXCEPT
          !.thread[t] =
              IF server.models_loaded /\ server.emotion_classifier
                 /\ server.embedding_model
              THEN (IF t = "preload" THEN "done" ELSE "idle")
              ELSE "emotion"]
    /\ UNCHANGED <<entries, jobs, worker, upd, out, clusterVars, broker>>

\* emotion_classifier = pipeline(...) (main.py 72-78)
load_models_emotion(t) ==
    /\ server.thread[t] = "emotion"
    /\ server' = [server EXCEPT !.thread[t] = "embedding",
                                !.emotion_classifier = TRUE,
                                !.loads.emotion_classifier = @ + 1]
    /\ UNCHANGED <<entries, jobs, worker, upd, out, clusterVars, broker>>

\* embedding_model = SentenceTransformer(...); models_loaded = True
\* (main.py 81-88)
load_models_embedding(t) ==
    /\ server.thread[t] = "embedding"
    /\ server' = [server EXCEPT !.thread[t] = IF t = "preload" THEN "done" ELSE "idle",
                                !.embedding_model = TRUE,
                                !.models_loaded = TRUE,
                                !.loads.embedding_model = @ + 1]
    /\ UNCHANGED <<entries, jobs, worker, upd, out, clusterVars, broker>>

\* semantic_search (main.py 628-677): require_embedding_model, then
\* model.encode(request.query) in the serving process, then the candidates
\* in the order in which the query without ORDER BY returns them
semantic_search(u, query, top_k, pool) ==
    /\ pool \in Perms(WithEmbedding(u))
    /\ \E exc \in {"none", "load_models failed"} :
          IF exc # "none" /\ ~server.embedding_model
          THEN /\ out' = SearchOut("semantic_search", 500, top_k, <<>>, <<>>)
               /\ server' = server
          ELSE /\ exc = "none"
               /\ out' = SearchOut("semantic_search", 200, top_k,
                             Similarities(Emb(query), pool),
                             Slice(Sort(Similarities(Emb(query), pool)), top_k))
               /\ server' = [(IF server.embedding_model THEN server
                               ELSE Loaded(server))
                                EXCEPT !.calls = @ \cup {"encode"}]
    /\ UNCHANGED <<entries, jobs, worker, upd, clusterVars, broker>>

\* ------------------------------------------------- task_soft_time_limit
\* At the soft time limit the worker raises SoftTimeLimitExceeded, a subclass
\* of Exception, inside the running task: the task's except block catches
\* it, rolls back and returns the error payload.
task_soft_time_limit(w) ==
    /\ worker[w].job # 0
    /\ LET job == jobs[worker[w].job] IN
       IF job.kind = "vectorize_entry"
       THEN vectorize_entry_except(w, job.arg, "SoftTimeLimitExceeded")
       ELSE IF job.kind = "vectorize_all_entries"
       THEN vectorize_all_except(w, job.arg, "SoftTimeLimitExceeded")
       ELSE run_clustering_except(w, job.arg.user, "SoftTimeLimitExceeded")
    /\ UNCHANGED <<entries, upd, clusterVars, broker, server>>

\* ------------------------------------------------------ specifications
Init ==
    /\ entries = <<>>
    /\ jobs = <<>>
    /\ worker = [w \in Workers |-> Idle]
    /\ upd = {}
    /\ out = NoOut
    /\ runs = {}
    /\ clusters = {}
    /\ assignments = {}
    /\ clock = 0
    /\ run_id_seq = 0
    /\ broker = 0
    /\ server = Started

\* the job queue, the status endpoint and the vectorization tasks
Next ==
    \/ \E u \in Users, c \in Contents : create_entry(u, c)
    \/ \E u \in Users, e \in 1..MaxEntries : embed_entry(u, e)
    \/ \E u \in Users : embed_all_entries(u)
    \/ \E tid \in 1..MaxJobs : get_task_status(tid)
    \/ \E w \in Workers : Claim(w)
    \/ \E w \in Workers : HardTimeLimit(w)
    \/ \E w \in Workers : vectorize_entry_fetch(w)
    \/ \E w \in Workers : vectorize_entry_store(w)
    \/ \E w \in Workers : vectorize_all_fetch(w)
    \/ \E w \in Workers : vectorize_all_store(w)

Spec == Init /\ [][Next]_vars

\* journal entries as the vectorization tasks leave them: each entry either
\* lacks an embedding or has the embedding of its content
Embedded == {[user |-> u, content |-> 1, embedding |-> v] : u \in Users, v \in {0, Emb(1)}}

EntryTables == UNION {[1..n -> Embedded] : n \in 0..MaxEntries}

\* one clustering job is queued: the clustering task applied to every table
\* of entries, request and raw clustering output
InitResolve ==
    /\ entries \in EntryTables
    /\ jobs \in {<<Job("run_clustering", ClusterArgs(u, req))>> :
                    u \in Users, req \in ClusteringRunRequest}
    /\ worker = [w \in Workers |-> Idle]
    /\ upd = {}
    /\ out = NoOut
    /\ runs = {}
    /\ clusters = {}
    /\ assignments = {}
    /\ clock = 0
    /\ run_id_seq = 0
    /\ broker = 0
    /\ server = Started

NextResolve ==
    \/ \E w \in Workers : Claim(w)
    \/ \E w \in Workers : HardTimeLimit(w)
    \/ \E w \in Workers : run_clustering(w)
    \/ \E w \in Workers : run_clustering_latest(w)

\* the one queued job is executed by one worker process
NextResolveOne ==
    \/ \E w \in {1} : Claim(w)
    \/ \E w \in {1} : HardTimeLimit(w)
    \/ \E w \in {1} : run_clustering(w)
    \/ \E w \in {1} : run_clustering_latest(w)

SpecResolve == InitResolve /\ [][NextResolveOne]_vars

\* no user has two entries with a stored embedding
InitDegenerate ==
    /\ entries \in {t \in EntryTables :
                      \A u \in Users :
                         Cardinality({e \in DOMAIN t :
                            t[e].user = u /\ t[e].embedding # 0}) <= 1}
    /\ jobs = <<>>
    /\ worker = [w \in Workers |-> Idle]
    /\ upd = {}
    /\ out = NoOut
    /\ runs = {}
    /\ clusters = {}
    /\ assignments = {}
    /\ clock = 0
    /\ run_id_seq = 0
    /\ broker = 0
    /\ server = Started

\* clustering jobs submitted and executed concurrently
NextCluster ==
    \/ \E u \in Users, req \in ClusteringRunRequest : create_clustering_run(u, req)
    \/ \E w \in Workers : Claim(w)
    \/ \E w \in Workers : HardTimeLimit(w)
    \/ \E w \in Workers : run_clustering(w)
    \/ \E w \in Workers : run_clustering_latest(w)

SpecDegenerate == InitDegenerate /\ [][NextCluster]_vars

\* at most one journal entry exists
InitPipeline ==
    /\ entries \in {t \in EntryTables : Len(t) <= 1}
    /\ jobs = <<>>
    /\ worker = [w \in Workers |-> Idle]
    /\ upd = {}
    /\ out = NoOut
    /\ runs = {}
    /\ clusters = {}
    /\ assignments = {}
    /\ clock = 0
    /\ run_id_seq = 0
    /\ broker = 0
    /\ server = Started

\* Entry create and update (which enqueue vectorization jobs), clustering
\* requests, the read endpoints, status polling and the tasks, which one
\* worker process executes.  User 1 makes the writing requests, with the
\* default clustering request; both users read.
NextPipeline ==
    \/ \E u \in {1} : create_entry(u, 1)
    \/ \E u \in {1}, e \in 1..MaxEntries : update_entry_enqueue(u, e, 2)
    \/ update_entry_commit
    \/ \E u \in {1}, req \in {r \in ClusteringRunRequest :
                                  r.range = <<0, 0>> /\ r.threshold = 1} :
          create_clustering_run(u, req)
    \/ \E u \in Users : get_clustering_runs(u)
    \/ \E u \in Users, id \in 1..MaxJobs : get_cluster_visualization(u, id)
    \/ \E tid \in 1..MaxJobs : get_task_status(tid)
    \/ \E w \in {1} : Claim(w)
    \/ \E w \in {1} : HardTimeLimit(w)
    \/ \E w \in {1} : vectorize_entry_fetch(w)
    \/ \E w \in {1} : vectorize_entry_store(w)
    \/ \E w \in {1} : run_clustering(w)
    \/ \E w \in {1} : run_clustering_latest(w)

SpecPipeline == InitPipeline /\ [][NextPipeline]_vars

\* two clustering jobs of user 1 are queued, the second with the stricter
\* threshold, over two entries of user 1 that have an embedding
InitConcurrent ==
    /\ entries = [e \in 1..2 |-> [user |-> 1, content |-> 1, embedding |-> Emb(1)]]
    /\ jobs = [j \in 1..2 |->
                  Job("run_clustering", [user |-> 1, range |-> <<0, 0>>, threshold |-> j])]
    /\ worker = [w \in Workers |-> Idle]
    /\ upd = {}
    /\ out = NoOut
    /\ runs = {}
    /\ clusters = {}
    /\ assignments = {}
    /\ clock = 0
    /\ run_id_seq = 0
    /\ broker = 0
    /\ server = Started

SpecConcurrent == InitConcurrent /\ [][NextResolve]_vars

\* submissions and the workers draining the queue
NextQueue ==
    \/ \E u \in Users, c \in Contents : create_entry(u, c)
    \/ \E u \in Users, e \in 1..MaxEntries : embed_entry(u, e)
    \/ \E u \in Users : embed_all_entries(u)
    \/ \E w \in Workers : Claim(w)
    \/ \E w \in Workers : HardTimeLimit(w)
    \/ \E w \in Workers : vectorize_entry_fetch(w)
    \/ \E w \in Workers : vectorize_entry_store(w)
    \/ \E w \in Workers : vectorize_all_fetch(w)
    \/ \E w \in Workers : vectorize_all_store(w)

\* what a worker process does with the task it holds; the hard time limit
\* ends a task that does not end by itself
TaskStep(w) ==
    \/ vectorize_entry_fetch(w)
    \/ vectorize_entry_store(w)
    \/ vectorize_all_fetch(w)
    \/ vectorize_all_store(w)
    \/ HardTimeLimit(w)

\* A worker's consumer takes a message whenever it is idle and one is
\* queued, and a task it runs comes to an end.
SpecQueue ==
    /\ Init
    /\ [][NextQueue]_vars
    /\ \A w \in Workers : WF_vars(Claim(w)) /\ WF_vars(TaskStep(w))

\* one worker runs the two queued clustering jobs while runs are deleted
NextDelete ==
    \/ \E w \in {1} : Claim(w)
    \/ \E w \in {1} : run_clustering(w)
    \/ \E w \in {1} : run_clustering_latest(w)
    \/ \E id \in 1..MaxJobs : delete_run(id)

\* two clustering jobs of user 1 are queued over two entries that have an
\* embedding: the first over both, the second over the entries from the
\* second on
InitDelete ==
    /\ entries = [e \in 1..2 |-> [user |-> 1, content |-> 1, embedding |-> Emb(1)]]
    /\ jobs = <<Job("run_clustering", [user |-> 1, range |-> <<0, 0>>, threshold |-> 2]),
                Job("run_clustering", [user |-> 1, range |-> <<2, 0>>, threshold |-> 1])>>
    /\ worker = [w \in Workers |-> Idle]
    /\ upd = {}
    /\ out = NoOut
    /\ runs = {}
    /\ clusters = {}
    /\ assignments = {}
    /\ clock = 0
    /\ run_id_seq = 0
    /\ broker = 0
    /\ server = Started

SpecDelete == InitDelete /\ [][NextDelete]_vars

\* submissions and the workers, whose tasks may reach the soft time limit
NextSoftLimit ==
    \/ \E u \in Users, c \in Contents : create_entry(u, c)
    \/ \E u \in Users : embed_all_entries(u)
    \/ \E w \in Workers : Claim(w)
    \/ \E w \in Workers : HardTimeLimit(w)
    \/ \E w \in Workers : task_soft_time_limit(w)
    \/ \E w \in Workers : vectorize_entry_fetch(w)
    \/ \E w \in Workers : vectorize_entry_store(w)
    \/ \E w \in Workers : vectorize_all_fetch(w)
    \/ \E w \in Workers : vectorize_all_store(w)

SpecSoftLimit == Init /\ [][NextSoftLimit]_vars

\* the broker becomes unreachable for n connection attempts, or reachable
broker_outage(n) ==
    /\ n # broker
    /\ broker' = n
    /\ UNCHANGED <<entries, jobs, worker, upd, out, clusterVars, server>>

\* `handler` calls task.delay: the job is queued if and only if one of the
\* connection attempts reaches the broker (a 404 response precedes the call)
Submission(handler) ==
    /\ handler
    /\ out'.code # 404 => ((jobs' # jobs) <=> Connects)

\* the endpoints that answer with a task id, and the broker's outages
NextSubmit ==
    \/ \E n \in 0..MaxOutage : broker_outage(n)
    \/ \E u \in Users, e \in 1..MaxEntries : Submission(embed_entry(u, e))
    \/ \E u \in Users : Submission(embed_all_entries(u))
    \/ \E u \in Users, req \in ClusteringRunRequest :
          Submission(create_clustering_run(u, req))

SpecSubmit == InitPipeline /\ [][NextSubmit]_vars

\* entries created and updated while the broker accepts or refuses the
\* vectorization jobs, which one worker process executes
NextDegrade ==
    \/ \E u \in Users, c \in Contents : create_entry(u, c)
    \/ \E u \in Users, e \in 1..MaxEntries, c \in Contents :
          update_entry_enqueue(u, e, c)
    \/ update_entry_commit
    \/ \E w \in {1} : Claim(w)
    \/ \E w \in {1} : vectorize_entry_fetch(w)
    \/ \E w \in {1} : vectorize_entry_store(w)

SpecDegrade == Init /\ [][NextDegrade]_vars

\* one worker process executes the vectorization jobs of user 1 one after
\* the other
NextWorker ==
    \/ \E u \in {1}, c \in Contents : create_entry(u, c)
    \/ \E u \in {1}, e \in 1..MaxEntries : embed_entry(u, e)
    \/ \E u \in {1} : embed_all_entries(u)
    \/ \E w \in {1} : Claim(w)
    \/ \E w \in {1} : HardTimeLimit(w)
    \/ \E w \in {1} : vectorize_entry_fetch(w)
    \/ \E w \in {1} : vectorize_entry_store(w)
    \/ \E w \in {1} : vectorize_all_fetch(w)
    \/ \E w \in {1} : vectorize_all_store(w)

SpecWorker == Init /\ [][NextWorker]_vars

\* the bound of a corpus
MaxCorpus == 3

\* journal entries with texts of their own, each without an embedding or
\* with the embedding of its text
Corpora ==
    UNION {[1..n -> {r \in [user : Users, content : Contents,
                            embedding : {0} \cup {Emb(c) : c \in Contents}] :
                        r.embedding \in {0, Emb(r.content)}}]
              : n \in 0..MaxCorpus}

InitSearch ==
    /\ entries \in Corpora
    /\ jobs = <<>>
    /\ worker = [w \in Workers |-> Idle]
    /\ upd = {}
    /\ out = NoOut
    /\ runs = {}
    /\ clusters = {}
    /\ assignments = {}
    /\ clock = 0
    /\ run_id_seq = 0
    /\ broker = 0
    /\ server = Started

\* the two searches of user 1 over every corpus
NextSearch ==
    \/ \E e \in 1..MaxCorpus, top_k \in TopKs :
          \E other_entries \in Perms(OtherEntries(1, e)) :
             find_similar_entries(1, e, top_k, other_entries)
    \/ \E query \in Queries, top_k \in TopKs :
          \E pool \in Perms(WithEmbedding(1)) :
             semantic_search(1, query, top_k, pool)
    \/ load_models

SpecSearch == InitSearch /\ [][NextSearch]_vars

\* user 1 has one entry with an embedding
InitServe ==
    /\ entries = <<[user |-> 1, content |-> 1, embedding |-> Emb(1)]>>
    /\ jobs = <<>>
    /\ worker = [w \in Workers |-> Idle]
    /\ upd = {}
    /\ out = NoOut
    /\ runs = {}
    /\ clusters = {}
    /\ assignments = {}
    /\ clock = 0
    /\ run_id_seq = 0
    /\ broker = 0
    /\ server = Started

\* the serving process answers the requests of user 1 (top_k left at its
\* default) while one worker process executes the jobs they enqueue
NextServe ==
    \/ \E u \in {1}, c \in Contents : create_entry(u, c)
    \/ \E u \in {1}, req \in {r \in ClusteringRunRequest :
                                  r.range = <<0, 0>> /\ r.threshold = 1} :
          create_clustering_run(u, req)
    \/ \E u \in {1} : get_clustering_runs(u)
    \/ \E u \in {1}, id \in 1..MaxJobs : get_cluster_visualization(u, id)
    \/ \E e \in 1..MaxEntries, top_k \in {5} :
          \E other_entries \in Perms(OtherEntries(1, e)) :
             find_similar_entries(1, e, top_k, other_entries)
    \/ \E query \in Queries, top_k \in {5} :
          \E pool \in Perms(WithEmbedding(1)) :
             semantic_search(1, query, top_k, pool)
    \/ load_models
    \/ \E w \in {1} : Claim(w)
    \/ \E w \in {1} : vectorize_entry_fetch(w)
    \/ \E w \in {1} : vectorize_entry_store(w)
    \/ \E w \in {1} : run_clustering(w)
    \/ \E w \in {1} : run_clustering_latest(w)

SpecServe == InitServe /\ [][NextServe]_vars

\* user 1 has two entries without an embedding, and nobody writes text
InitRerun ==
    /\ entries = <<JournalEntry(1, 1), JournalEntry(1, 2)>>
    /\ jobs = <<>>
    /\ worker = [w \in Workers |-> Idle]
    /\ upd = {}
    /\ out = NoOut
    /\ runs = {}
    /\ clusters = {}
    /\ assignments = {}
    /\ clock = 0
    /\ run_id_seq = 0
    /\ broker = 0
    /\ server = Started

\* the same vectorization requested more than once while the texts stay as
\* they are
NextRerun ==
    \/ \E e \in 1..MaxEntries : embed_entry(1, e)
    \/ embed_all_entries(1)
    \/ \E w \in Workers : Claim(w)
    \/ \E w \in Workers : vectorize_entry_fetch(w)
    \/ \E w \in Workers : vectorize_entry_store(w)
    \/ \E w \in Workers : vectorize_all_fetch(w)
    \/ \E w \in Workers : vectorize_all_store(w)

SpecRerun == InitRerun /\ [][NextRerun]_vars

\* both users request clustering runs with the default request, two worker
\* processes execute them concurrently, and both users list their runs
NextListing ==
    \/ \E u \in Users, req \in {r \in ClusteringRunRequest :
                                   r.range = <<0, 0>> /\ r.threshold = 1} :
          create_clustering_run(u, req)
    \/ \E u \in Users : get_clustering_runs(u)
    \/ \E w \in Workers : Claim(w)
    \/ \E w \in Workers : run_clustering(w)
    \/ \E w \in Workers : run_clustering_latest(w)

SpecListing == InitDegenerate /\ [][NextListing]_vars

\* Two entries of user 1 have an embedding.  A first clustering job of the
\* user has persisted run 1: two clusters, both entries retained in both
\* with cluster 0 the more probable, every cluster labelled.  A second job
\* of the same request is queued.
InitView ==
    LET arg == [user |-> 1, range |-> <<0, 0>>, threshold |-> 1]
        E == {1, 2}
        raw == [k |-> 2, prob |-> [e \in E |-> <<2, 1>>]]
        rows == Resolve(1, E, raw, arg.threshold)
        run == RunRow(1, arg, 1, E, raw, rows)
    IN /\ entries = [e \in 1..2 |-> [user |-> 1, content |-> 1, embedding |-> Emb(1)]]
       /\ jobs = <<[Job("run_clustering", arg) EXCEPT
                        !.state = "SUCCESS", !.retval = {ClusterSuccess(run)}],
                   Job("run_clustering", arg)>>
       /\ worker = [w \in Workers |-> Idle]
       /\ upd = {}
       /\ out = NoOut
       /\ runs = {run}
       /\ clusters = ClusterRows(1, raw, rows, {"topic"})
       /\ assignments = rows
       /\ clock = 1
       /\ run_id_seq = 1
       /\ broker = 0
       /\ server = Started

\* one worker process executes the queued clustering job while the user
\* opens the visualization of the runs
NextView ==
    \/ \E id \in 1..MaxJobs : get_cluster_visualization(1, id)
    \/ \E w \in {1} : Claim(w)
    \/ \E w \in {1} : run_clustering(w)
    \/ \E w \in {1} : run_clustering_latest(w)

SpecView == InitView /\ [][NextView]_vars

\* user 2 has an entry with an embedding
InitNotFound ==
    /\ entries = <<[user |-> 2, content |-> 1, embedding |-> Emb(1)]>>
    /\ jobs = <<>>
    /\ worker = [w \in Workers |-> Idle]
    /\ upd = {}
    /\ out = NoOut
    /\ runs = {}
    /\ clusters = {}
    /\ assignments = {}
    /\ clock = 0
    /\ run_id_seq = 0
    /\ broker = 0
    /\ server = Started

\* user 2 requests a clustering run, which one worker process executes;
\* user 1 writes an entry and names entries and runs in requests, also
\* those that are missing or of user 2
NextNotFound ==
    \/ create_entry(1, 1)
    \/ \E req \in {r \in ClusteringRunRequest :
                      r.range = <<0, 0>> /\ r.threshold = 1} :
          create_clustering_run(2, req)
    \/ \E e \in 1..MaxEntries : get_entry(1, e)
    \/ \E e \in 1..MaxEntries : update_entry_enqueue(1, e, 2)
    \/ update_entry_commit
    \/ \E e \in 1..MaxEntries : embed_entry(1, e)
    \/ \E e \in 1..MaxEntries :
          \E other_entries \in Perms(OtherEntries(1, e)) :
             find_similar_entries(1, e, 5, other_entries)
    \/ \E id \in 1..MaxJobs : get_cluster_visualization(1, id)
    \/ \E w \in {1} : Claim(w)
    \/ \E w \in {1} : vectorize_entry_fetch(w)
    \/ \E w \in {1} : vectorize_entry_store(w)
    \/ \E w \in {1} : run_clustering(w)
    \/ \E w \in {1} : run_clustering_latest(w)

SpecNotFound == InitNotFound /\ [][NextNotFound]_vars

\* the entries of both users are there from the start, with or without an
\* embedding, and nobody creates one
InitBatch ==
    /\ entries \in {t \in EntryTables : Len(t) = MaxEntries}
    /\ jobs = <<>>
    /\ worker = [w \in Workers |-> Idle]
    /\ upd = {}
    /\ out = NoOut
    /\ runs = {}
    /\ clusters = {}
    /\ assignments = {}
    /\ clock = 0
    /\ run_id_seq = 0
    /\ broker = 0
    /\ server = Started

\* batch and single-entry vectorization jobs of both users, executed
\* concurrently
NextBatch ==
    \/ \E u \in Users, e \in 1..MaxEntries : embed_entry(u, e)
    \/ \E u \in Users : embed_all_entries(u)
    \/ \E w \in Workers : Claim(w)
    \/ \E w \in Workers : vectorize_entry_fetch(w)
    \/ \E w \in Workers : vectorize_entry_store(w)
    \/ \E w \in Workers : vectorize_all_fetch(w)
    \/ \E w \in Workers : vectorize_all_store(w)

SpecBatch == InitBatch /\ [][NextBatch]_vars

\* entries are created and the workers execute the jobs that enqueues
NextCreated ==
    \/ \E u \in Users, c \in Contents : create_entry(u, c)
    \/ \E w \in Workers : Claim(w)
    \/ \E w \in Workers : HardTimeLimit(w)
    \/ \E w \in Workers : vectorize_entry_fetch(w)
    \/ \E w \in Workers : vectorize_entry_store(w)

\* as in SpecQueue: an idle consumer takes a queued message, and a task a
\* worker runs comes to an end
SpecCreated ==
    /\ Init
    /\ [][NextCreated]_vars
    /\ \A w \in Workers : WF_vars(Claim(w)) /\ WF_vars(TaskStep(w))

\* user 1 has an entry with the embedding of its text
InitUpdate ==
    /\ entries = <<[user |-> 1, content |-> 1, embedding |-> Emb(1)]>>
    /\ jobs = <<>>
    /\ worker = [w \in Workers |-> Idle]
    /\ upd = {}
    /\ out = NoOut
    /\ runs = {}
    /\ clusters = {}
    /\ assignments = {}
    /\ clock = 0
    /\ run_id_seq = 0
    /\ broker = 0
    /\ server = Started

\* the user rewrites the entry while the workers execute the jobs that
\* enqueues
NextUpdate ==
    \/ \E e \in 1..MaxEntries, c \in Contents : update_entry_enqueue(1, e, c)
    \/ update_entry_commit
    \/ \E w \in Workers : Claim(w)
    \/ \E w \in Workers : vectorize_entry_fetch(w)
    \/ \E w \in Workers : vectorize_entry_store(w)

SpecUpdate == InitUpdate /\ [][NextUpdate]_vars

\* the serving process starts: the preloading thread and the threads of
\* handlers that need a model run load_models
NextStartup ==
    \/ lifespan
    \/ \E t \in Threads, global \in {"emotion_classifier", "embedding_model"} :
          require_model(t, global)
    \/ \E t \in Threads : load_models_check(t)
    \/ \E t \in Threads : load_models_emotion(t)
    \/ \E t \in Threads : load_models_embedding(t)

SpecStartup == Init /\ [][NextStartup]_vars

\* each user has written an entry, with or without an embedding
InitIsolation ==
    /\ entries \in {t \in EntryTables :
                      Len(t) = 2 /\ t[1].user = 1 /\ t[2].user = 2}
    /\ jobs = <<>>
    /\ worker = [w \in Workers |-> Idle]
    /\ upd = {}
    /\ out = NoOut
    /\ runs = {}
    /\ clusters = {}
    /\ assignments = {}
    /\ clock = 0
    /\ run_id_seq = 0
    /\ broker = 0
    /\ server = Started

\* both users request vectorization and clustering, one worker process
\* executes the jobs, and user 1 reads
NextIsolation ==
    \/ \E u \in Users, e \in 1..MaxEntries : embed_entry(u, e)
    \/ \E u \in Users : embed_all_entries(u)
    \/ \E u \in Users, req \in {r \in ClusteringRunRequest :
                                   r.range = <<0, 0>> /\ r.threshold = 1} :
          create_clustering_run(u, req)
    \/ get_entries(1)
    \/ \E e \in 1..MaxEntries : get_entry(1, e)
    \/ \E e \in 1..MaxEntries :
          \E other_entries \in Perms(OtherEntries(1, e)) :
             find_similar_entries(1, e, 5, other_entries)
    \/ \E query \in Queries :
          \E pool \in Perms(WithEmbedding(1)) : semantic_search(1, query, 5, pool)
    \/ get_clustering_runs(1)
    \/ \E id \in 1..MaxJobs : get_cluster_visualization(1, id)
    \/ \E w \in {1} : Claim(w)
    \/ \E w \in {1} : vectorize_entry_fetch(w)
    \/ \E w \in {1} : vectorize_entry_store(w)
    \/ \E w \in {1} : vectorize_all_fetch(w)
    \/ \E w \in {1} : vectorize_all_store(w)
    \/ \E w \in {1} : run_clustering(w)
    \/ \E w \in {1} : run_clustering_latest(w)

SpecIsolation == InitIsolation /\ [][NextIsolation]_vars

\* both users submit vectorization jobs, one worker process executes them,
\* and both users poll job ids
NextPoll ==
    \/ \E u \in Users : create_entry(u, 1)
    \/ \E u \in Users : embed_all_entries(u)
    \/ \E u \in Users, tid \in 1..MaxJobs : get_task_status_as(u, tid)
    \/ \E w \in {1} : Claim(w)
    \/ \E w \in {1} : vectorize_entry_fetch(w)
    \/ \E w \in {1} : vectorize_entry_store(w)
    \/ \E w \in {1} : vectorize_all_fetch(w)
    \/ \E w \in {1} : vectorize_all_store(w)

SpecPoll == Init /\ [][NextPoll]_vars

\* ================================================================ claims
Progression(a, b) ==
    \/ a = b
    \/ a = "PENDING" /\ b = "STARTED"
    \/ a = "STARTED" /\ b \in {"SUCCESS", "FAILURE"}

\* C1: under any sequence of submits, worker steps and polls, every job's
\* state only moves PENDING -> STARTED -> SUCCESS or FAILURE: a new job is
\* PENDING, no job is removed or moves backwards, and a SUCCESS or FAILURE
\* job never changes state again.
C1_StrictProgression ==
    [][/\ Len(jobs') >= Len(jobs)
       /\ \A j \in DOMAIN jobs : Progression(jobs[j].state, jobs'[j].state)
       /\ \A j \in DOMAIN jobs' \ DOMAIN jobs : jobs'[j].state = "PENDING"]_vars

C1_Witness ==
    \E j, k \in DOMAIN jobs : jobs[j].state = "SUCCESS" /\ jobs[k].state = "FAILURE"

Polled == out.op = "get_task_status"

\* C2 as stated: for every poll, result is present iff the state is
\* succeeded, and error is present iff the state is failed.
C2_ResultIffSucceeded ==
    Polled =>
        /\ (out.result # {}) <=> (out.status = "SUCCESS")
        /\ (out.error # {}) <=> (out.status = "FAILURE")

\* C2 (amended): for every poll, error is present iff the state is failed,
\* and result is present iff the state is not failed: the task's return
\* value when succeeded, a placeholder message when pending or started.
C2_ErrorIffFailed ==
    Polled =>
        /\ (out.error # {}) <=> (out.status = "FAILURE")
        /\ (out.result # {}) <=> (out.status # "FAILURE")
        /\ out.status = "SUCCESS" => out.result = jobs[out.task_id].retval
        /\ out.status \in {"PENDING", "STARTED"} =>
              \A r \in out.result : DOMAIN r = {"message"}

C2_Witness ==
    /\ Polled
    /\ out.status = "FAILURE"
    /\ out.error # {}
    /\ out.result = {}

TimeLimitExceeded == {"TimeLimitExceeded(1800,)"}

\* C3: a vectorize_entry job is never a queue-level FAILURE because of its
\* own work (a missing entry, an exception of the embedding service, of the
\* query or of the commit): it ends SUCCESS with a payload, and the payload
\* of a failed attempt has status 'error' and a message.  Only the hard time
\* limit makes it a FAILURE.
C3_ErrorsInPayload ==
    \A j \in DOMAIN jobs :
        jobs[j].kind = "vectorize_entry" =>
            /\ jobs[j].state = "FAILURE" => jobs[j].exc = TimeLimitExceeded
            /\ jobs[j].state = "SUCCESS" =>
                  /\ Cardinality(jobs[j].retval) = 1
                  /\ \A r \in jobs[j].retval :
                        /\ r.status \in {"success", "error"}
                        /\ r.message # ""
                        /\ r.entry_id = jobs[j].arg
                        /\ r.status = "success" =>
                              entries[r.entry_id].embedding # 0

C3_Witness ==
    \E j, k \in DOMAIN jobs :
        /\ jobs[j].kind = "vectorize_entry"
        /\ jobs[k].kind = "vectorize_entry"
        /\ jobs[j].state = "SUCCESS"
        /\ jobs[k].state = "SUCCESS"
        /\ \E r \in jobs[j].retval :
              r.status = "error" /\ r.message = "embedding service error"
        /\ \E r \in jobs[k].retval :
              r.status = "error" /\ r.message = "commit failed"

\* the work of the polled job failed
WorkFailed(j) == \E r \in jobs[j].retval : r.status = "error"

BatchJobOf(w) ==
    /\ worker[w].job # 0
    /\ jobs[worker[w].job].kind = "vectorize_all_entries"

Succeeds(j) == \E r \in jobs'[j].retval : r.status = "success"

\* C5: every step of a vectorize_all_entries job other than its successful
\* commit leaves every journal entry as it was: when the job ends with an
\* exception raised by the query, the embedding service, the loop or the
\* commit, no entry's stored embedding has changed.
C5_AllOrNothing ==
    [][\A w \in Workers :
          (BatchJobOf(w) /\ worker'[w] # worker[w] /\ ~Succeeds(worker[w].job))
              => entries' = entries]_vars

C5_Witness ==
    \E j \in DOMAIN jobs :
        /\ jobs[j].kind = "vectorize_all_entries"
        /\ \E r \in jobs[j].retval :
              r.status = "error" /\ r.message \in {"tokenizer error", "commit failed"}
        /\ Cardinality(LackingEmbedding(jobs[j].arg)) = 2

\* C6: the step in which a vectorize_all_entries job over the fetched
\* entries e_1..e_n succeeds stores for each e_i the vector of e_i's own
\* fetched text, and returns processed_count = total_entries = n with the
\* i-th per-entry result naming e_i.
C6_OrderPreserving ==
    [][\A w \in Workers :
          (BatchJobOf(w) /\ worker[w].pc = "store" /\ Succeeds(worker[w].job)) =>
              LET ids == worker[w].ids
                  n == Len(ids)
              IN /\ \A i \in 1..n :
                       entries'[ids[i]].embedding = Emb(worker[w].texts[i])
                 /\ \A r \in jobs'[worker[w].job].retval :
                       /\ r.total_entries = n
                       /\ r.processed_count = n
                       /\ Len(r.results) = n
                       /\ \A i \in 1..n : r.results[i].entry_id = ids[i]]_vars

C6_Witness ==
    \E j \in DOMAIN jobs :
        /\ jobs[j].kind = "vectorize_all_entries"
        /\ \E r \in jobs[j].retval : r.status = "success" /\ r.total_entries = 2
        /\ Len(entries) = 2
        /\ entries[1].content # entries[2].content
        /\ \A e \in 1..2 : entries[e].embedding = Emb(entries[e].content)

ClusterJobOf(w) ==
    /\ worker[w].job # 0
    /\ jobs[worker[w].job].kind = "run_clustering"

\* C7: whenever a clustering job returns a result that reports an error, the
\* attempt created no ClusteringRun (and so no Cluster or assignment row).
C7_NoRunOnError ==
    [][\A w \in Workers :
          (/\ ClusterJobOf(w)
           /\ worker'[w].job = 0
           /\ \E r \in jobs'[worker[w].job].retval : r.status = "error")
              => worker[w].run = 0]_vars

AssignmentsOf(id, e) == {a \in assignments' : a.run = id /\ a.entry = e}

\* C8: a clustering job over zero or one eligible entries creates a new run
\* with num_clusters = 0 in which every considered entry is noise, and a
\* result that reports success reports it for that new run.
C8_DegenerateRunReported ==
    [][\A w \in Workers :
          ClusterJobOf(w) =>
              LET arg == jobs[worker[w].job].arg
                  E == Eligible(arg.user, arg.range)
              IN /\ (worker'[w].pc = "latest" /\ worker[w].pc = "start"
                       /\ Cardinality(E) <= 1) =>
                        \E r \in runs' \ runs :
                           /\ r.id = worker'[w].run
                           /\ r.num_clusters = 0
                           /\ r.num_entries = Cardinality(E)
                           /\ r.noise_entries = Cardinality(E)
                           /\ \A e \in E :
                                 \E a \in AssignmentsOf(r.id, e) :
                                    /\ a.cluster_id = -1
                                    /\ AssignmentsOf(r.id, e) = {a}
                 /\ worker[w].pc = "latest" =>
                        \A r \in jobs'[worker[w].job].retval :
                           r.status = "success" =>
                              r.run_id = worker[w].run /\ r.num_clusters = 0]_vars

\* C9: for every (run, entry) pair that has an assignment row, exactly one
\* of the pair's rows is primary.
C9_ExactlyOnePrimary ==
    \A a \in assignments :
        Cardinality({b \in assignments :
            b.run = a.run /\ b.entry = a.entry /\ b.is_primary}) = 1

C9_Witness ==
    \E a, b \in assignments :
        /\ a.run = b.run
        /\ a.entry = b.entry
        /\ a.cluster_id # b.cluster_id
        /\ a.membership_probability = b.membership_probability
        /\ a.is_primary
        /\ ~b.is_primary

\* C10: every assignment with cluster index -1 is primary and is the only
\* assignment of its entry in its run.
C10_NoiseIsSolePrimary ==
    \A a \in assignments :
        a.cluster_id = -1 =>
            /\ a.is_primary
            /\ \A b \in assignments :
                  (b.run = a.run /\ b.entry = a.entry) => b = a

C10_Witness ==
    \E a, b, c \in assignments :
        /\ a.cluster_id = -1
        /\ b.run = a.run
        /\ c.run = a.run
        /\ b.entry # a.entry
        /\ c.entry = b.entry
        /\ b.cluster_id # c.cluster_id

\* the raw clustering output a clustering job computed, while the job runs
RawOf(w) == IF worker[w].pc = "latest" THEN worker[w].raw ELSE {}

RowsOf(id, e) == {a \in assignments : a.run = id /\ a.entry = e}

\* C11: for each entry of a run, the membership that is at or above the
\* run's membership_threshold, has the highest probability among those, and
\* has the lowest cluster index among those of that probability, is the
\* entry's primary assignment, and no other membership is.
C11_PrimaryIsHighestLowestIndex ==
    \A w \in Workers : \A raw \in RawOf(w) :
        LET t == jobs[worker[w].job].arg.threshold IN
        \A e \in DOMAIN raw.prob : \A c \in 1..raw.k :
            LET p == raw.prob[e]
                best == /\ p[c] >= t
                        /\ \A d \in 1..raw.k :
                              p[d] >= t => (p[d] < p[c] \/ (p[d] = p[c] /\ c <= d))
            IN best <=> \E a \in RowsOf(worker[w].run, e) :
                           /\ a.cluster_id = c - 1
                           /\ a.membership_probability = p[c]
                           /\ a.is_primary

C11_Witness ==
    \E w \in Workers : \E raw \in RawOf(w) : \E e \in DOMAIN raw.prob :
        /\ raw.k = 2
        /\ raw.prob[e][1] = raw.prob[e][2]
        /\ raw.prob[e][1] >= jobs[worker[w].job].arg.threshold
        /\ \E a \in RowsOf(worker[w].run, e) : a.cluster_id = 0 /\ a.is_primary
        /\ \E a \in RowsOf(worker[w].run, e) : a.cluster_id = 1 /\ ~a.is_primary

ThresholdOf(id) == {r.membership_threshold : r \in {q \in runs : q.id = id}}

\* C12: every persisted non-noise assignment has a probability at or above
\* the membership_threshold of its run, and an entry none of whose raw
\* memberships reaches the threshold has exactly one assignment in the run,
\* with cluster index -1.
C12_ThresholdOrNoise ==
    /\ \A a \in assignments :
          a.cluster_id # -1 =>
              /\ ThresholdOf(a.run) # {}
              /\ \A t \in ThresholdOf(a.run) : a.membership_probability >= t
    /\ \A w \in Workers : \A raw \in RawOf(w) :
          \A e \in DOMAIN raw.prob :
              (\A c \in 1..raw.k : raw.prob[e][c] < jobs[worker[w].job].arg.threshold)
                  => /\ Cardinality(RowsOf(worker[w].run, e)) = 1
                     /\ \A a \in RowsOf(worker[w].run, e) : a.cluster_id = -1

C12_Witness ==
    \E w \in Workers : \E raw \in RawOf(w) : \E e, f \in DOMAIN raw.prob :
        /\ raw.k = 2
        /\ jobs[worker[w].job].arg.threshold = 2
        /\ raw.prob[e][1] = 1
        /\ raw.prob[e][2] = 1
        /\ \E a \in RowsOf(worker[w].run, e) : a.cluster_id = -1
        /\ \E a \in RowsOf(worker[w].run, f) :
              a.cluster_id # -1 /\ a.membership_probability = 2

\* C13: each run's recorded counts agree with its rows: num_entries is the
\* number of its primary assignments (noise included), noise_entries the
\* number of its noise assignments, num_clusters the number of its Cluster
\* rows; and a clustering job's successful result carries the counts of the
\* run row it names.
C13_CountsAgree ==
    /\ \A r \in runs :
          /\ Cardinality({a \in assignments : a.run = r.id /\ a.is_primary})
                = r.num_entries
          /\ Cardinality({a \in assignments : a.run = r.id /\ a.cluster_id = -1})
                = r.noise_entries
          /\ Cardinality({c \in clusters : c.run = r.id}) = r.num_clusters
    /\ \A j \in DOMAIN jobs : \A p \in jobs[j].retval :
          (jobs[j].kind = "run_clustering" /\ p.status = "success") =>
              \E r \in runs :
                  /\ r.id = p.run_id
                  /\ p.num_entries = r.num_entries
                  /\ p.num_clusters = r.num_clusters
                  /\ p.noise_entries = r.noise_entries

C13_Witness ==
    \E j \in DOMAIN jobs : \E p \in jobs[j].retval :
        /\ p.status = "success"
        /\ p.num_entries = 2
        /\ p.num_clusters = 2
        /\ p.noise_entries = 1
        /\ \E a \in assignments : a.run = p.run_id /\ a.is_primary /\ a.cluster_id = 1

\* C14: every step of every operation leaves each existing ClusteringRun
\* row, and the set of assignments of that run, exactly as they were; a step
\* that changes the table of runs adds one row with a fresh id.
C14_RunsImmutable ==
    [][/\ \A r \in runs :
             /\ r \in runs'
             /\ {a \in assignments' : a.run = r.id}
                   = {a \in assignments : a.run = r.id}
       /\ runs' # runs =>
             /\ Cardinality(runs') = Cardinality(runs) + 1
             /\ \A n \in runs' \ runs : \A r \in runs : n.id # r.id]_vars

C14_Witness ==
    /\ \E r, q \in runs : r.user = q.user /\ r.id # q.id
    /\ \E a, b \in assignments : a.run # b.run

\* the clustering jobs that returned a successful result
Clustered == {j \in DOMAIN jobs : \E p \in jobs[j].retval : p.status = "success"}

\* every run has its own id and its own rows, and every row has its run
OwnRows ==
    /\ \A r, q \in runs : r.id = q.id => r = q
    /\ \A a \in assignments \cup clusters : \E r \in runs : r.id = a.run
    /\ \A r \in runs :
          /\ {a.entry : a \in {b \in assignments : b.run = r.id}}
                = Eligible(r.user, r.range)
          /\ {c.cluster_id : c \in {k \in clusters : k.run = r.id}}
                = 0..(r.num_clusters - 1)
          /\ \A a \in assignments :
                a.run = r.id => a.cluster_id \in -1..(r.num_clusters - 1)

\* C15: with two clustering jobs of one user on two workers, no step removes
\* or changes a run, cluster or assignment row; every run has its own id,
\* the timestamp of its own creation, assignments for exactly the entries it
\* considered and clusters with exactly its own indices; and when both jobs
\* have returned a successful result there are two runs.
C15_IndependentRuns ==
    [][/\ runs \subseteq runs'
       /\ clusters \subseteq clusters'
       /\ assignments \subseteq assignments'
       /\ OwnRows'
       /\ Cardinality(Clustered') <= Cardinality(runs')
       /\ \A r \in runs' \ runs : r.run_timestamp = clock']_vars

C15_Witness ==
    /\ Cardinality(Clustered) = 2
    /\ \E r, q \in runs :
          /\ r.id # q.id
          /\ r.num_clusters = 2
          /\ q.num_clusters = 1
          /\ r.noise_entries # q.noise_entries

\* C16: no two workers hold the same job; a worker takes only a job that is
\* pending and that no worker has taken before, so each job is taken at most
\* once; and every submitted job is eventually taken by a worker.
C16_ClaimedExactlyOnce ==
    /\ [](\A w, v \in Workers :
             (w # v /\ worker[w].job # 0) => worker[w].job # worker[v].job)
    /\ [][\A w \in Workers :
             (worker'[w].job # 0 /\ worker'[w].job # worker[w].job) =>
                 /\ worker[w].job = 0
                 /\ jobs[worker'[w].job].state = "PENDING"
                 /\ jobs'[worker'[w].job].state = "STARTED"
                 /\ \A v \in Workers : worker[v].job # worker'[w].job]_vars
    /\ \A j \in 1..MaxJobs :
          (j \in DOMAIN jobs) ~> (j \in DOMAIN jobs /\ jobs[j].state # "PENDING")

C16_Witness ==
    /\ worker[1].job # 0
    /\ worker[2].job # 0
    /\ worker[1].job # worker[2].job
    /\ jobs[worker[1].job].kind = jobs[worker[2].job].kind

Exists(id) == \E r \in runs : r.id = id

\* C17: no cluster and no assignment exists whose run does not exist, and a
\* step in which a run ceases to exist removes exactly that run row, its
\* clusters and its assignments: the rows of other runs and the journal
\* entries are as before.
C17_CascadeDelete ==
    /\ [](\A a \in assignments \cup clusters : Exists(a.run))
    /\ [][\A id \in 1..MaxJobs :
             (Exists(id) /\ ~Exists(id)') =>
                 /\ runs' = {r \in runs : r.id # id}
                 /\ clusters' = {c \in clusters : c.run # id}
                 /\ assignments' = {a \in assignments : a.run # id}
                 /\ entries' = entries]_vars

C17_Witness ==
    /\ run_id_seq = 2
    /\ \A r \in runs : r.id = 1
    /\ \E c \in clusters : c.run = 1
    /\ \E a \in assignments : a.run = 1 /\ a.cluster_id # -1
    /\ \E j \in DOMAIN jobs : \E p \in jobs[j].retval :
          p.status = "success" /\ p.run_id = 2

\* C18: reaching the soft time limit changes nothing for the job: the step
\* leaves the job's state and result, the worker's position in the task and
\* the stored rows as they were, so the job goes on to the outcome it would
\* have had without a soft limit.
C18_SoftLimitNoEffect ==
    [][\A w \in Workers :
          task_soft_time_limit(w) =>
              /\ jobs' = jobs
              /\ worker' = worker
              /\ entries' = entries]_vars

\* the job was terminated by the hard time limit
TimedOut(j) == jobs[j].state = "FAILURE" /\ jobs[j].exc = TimeLimitExceeded

\* C19: a job that a worker no longer executes has ended: a started job
\* whose worker was terminated at the hard time limit is a FAILURE with the
\* time limit as its cause; such a job stays as it is; and every poll of it
\* reports the failed state, the timeout cause in error and no result.
C19_HardLimitReportedFailed ==
    /\ [](\A j \in DOMAIN jobs :
             (jobs[j].state = "STARTED") <=> (\E w \in Workers : worker[w].job = j))
    /\ [](\A j \in DOMAIN jobs : jobs[j].state = "FAILURE" => TimedOut(j))
    /\ [][\A j \in DOMAIN jobs : TimedOut(j) => jobs'[j] = jobs[j]]_vars
    /\ []((Polled /\ out.task_id \in DOMAIN jobs /\ TimedOut(out.task_id)) =>
             /\ out.status = "FAILURE"
             /\ out.error = TimeLimitExceeded
             /\ out.result = {})

C19_Witness ==
    /\ Polled
    /\ out.task_id \in DOMAIN jobs
    /\ TimedOut(out.task_id)
    /\ jobs[out.task_id].kind = "vectorize_all_entries"
    /\ out.error = TimeLimitExceeded
    /\ \E e \in DOMAIN entries :
          entries[e].user = jobs[out.task_id].arg /\ entries[e].embedding = 0

Submits == {"embed_entry", "embed_all_entries", "create_clustering_run"}

\* C20: a submission makes at most 1 + 10 connection attempts; when the
\* broker refuses them all the endpoint answers with an error and no
\* task_id and nothing is queued; and every task_id an endpoint returns is
\* the id of a job that the queue accepted in that request.
C20_TaskIdIffAccepted ==
    /\ [][(out' # out /\ out'.op \in Submits) =>
             /\ Attempts <= 11
             /\ (broker >= Attempts /\ out'.code # 404) =>
                   /\ out'.code = 500
                   /\ jobs' = jobs
             /\ out'.task_id # {} <=> out'.code = 200
             /\ out'.task_id # {} <=>
                   (jobs' # jobs /\ out'.task_id = {Len(jobs')})
             /\ jobs' # jobs => broker < Attempts]_vars
    /\ []((out.op \in Submits /\ out.code = 200) =>
             \A t \in out.task_id : t \in DOMAIN jobs)

C20_Witness ==
    /\ broker = 11
    /\ out.op = "create_clustering_run"
    /\ out.code = 500
    /\ out.task_id = {}
    /\ Len(jobs) = 1

\* C21: a create_entry whose enqueue raised has appended the entry with
\* its text and no embedding, left the other entries alone and answered
\* 200 with the entry; an update_entry of an entry of the caller goes on to
\* its commit whether or not its enqueue raised, and the commit stores the
\* new text, leaves every embedding as it was and answers 200.
C21_SavedWhenEnqueueFails ==
    [][/\ (Len(entries') > Len(entries) /\ jobs' = jobs) =>
             /\ Len(entries') = Len(entries) + 1
             /\ \A e \in DOMAIN entries : entries'[e] = entries[e]
             /\ entries'[Len(entries')].embedding = 0
             /\ entries'[Len(entries')].content \in Contents
             /\ out' = [op |-> "create_entry", code |-> 200,
                        entry_id |-> Len(entries')]
       /\ (out' # out /\ out'.op = "update_entry") =>
             \/ out'.code = 404 /\ entries' = entries /\ jobs' = jobs
             \/ out'.code = 200 /\ upd # {}
       /\ \A r \in upd :
             upd' = {} =>
                /\ entries'[r.entry].content = r.content
                /\ \A e \in DOMAIN entries :
                      /\ entries'[e].embedding = entries[e].embedding
                      /\ e # r.entry => entries'[e] = entries[e]
                /\ out' = [op |-> "update_entry", code |-> 200,
                           entry_id |-> r.entry]
       /\ \A u \in Users, e \in DOMAIN entries :
             (Owned(u, e) /\ \E c \in Contents : update_entry_enqueue(u, e, c))
                => upd' # {}]_vars

C21_Witness ==
    /\ jobs = <<>>
    /\ out = [op |-> "update_entry", code |-> 200, entry_id |-> 1]
    /\ entries[1].content = 2
    /\ entries[1].embedding = 0
    /\ Len(entries) = 2

\* C22 as stated: the serving process never runs an embedding inference, a
\* projection or a clustering itself.
C22_ServingNeverComputes == server.calls = {}

\* C22 (amended): a step of the serving process (one that is no worker's)
\* leaves every stored embedding, run, cluster and assignment as it was and
\* adds entries without an embedding only; the computations the serving
\* process runs itself are the embedding of the query text, in
\* semantic_search only, and the 2-D projection, in
\* get_cluster_visualization only.
C22_ServingComputesQueryAndPlotOnly ==
    /\ [](server.calls \subseteq {"encode", "fit_transform"})
    /\ [][/\ worker' = worker =>
                /\ \A e \in DOMAIN entries :
                      /\ e \in DOMAIN entries'
                      /\ entries'[e].embedding = entries[e].embedding
                /\ \A e \in DOMAIN entries' \ DOMAIN entries :
                      entries'[e].embedding = 0
                /\ UNCHANGED <<runs, clusters, assignments>>
          /\ server'.calls # server.calls =>
                /\ worker' = worker
                /\ \/ /\ out'.op = "semantic_search"
                      /\ server'.calls = server.calls \cup {"encode"}
                   \/ /\ out'.op = "get_cluster_visualization"
                      /\ server'.calls = server.calls \cup {"fit_transform"}]_vars

C22_Witness ==
    /\ server.calls = {"encode", "fit_transform"}
    /\ Len(entries) = 2
    /\ entries[2].embedding = Emb(entries[2].content)
    /\ \E a \in assignments : a.entry = 2
    /\ out.op = "get_cluster_visualization"
    /\ out.code = 200

\* the job the worker executes finds something to embed
NeedsModel(w) ==
    LET job == jobs[worker[w].job] IN
    /\ worker[w].pc = "start"
    /\ job.kind = "vectorize_entry" => job.arg \in DOMAIN entries
    /\ job.kind = "vectorize_all_entries" => LackingEmbedding(job.arg) # {}
    /\ job.kind \in {"vectorize_entry", "vectorize_all_entries"}

\* the hard time limit replaces the worker's process in this step
Replaced(w) == worker[w].job # 0 /\ jobs'[worker[w].job].state = "FAILURE"

\* C23: a worker process has constructed the embedding model at most once,
\* and holds it exactly if it has; it constructs it only in a step of a job
\* that found something to embed, when it holds none (so not when it takes
\* a job, nor in a job that finds no entry); and while the process lives a
\* model it holds stays, without being constructed again.
C23_ModelLoadedOncePerProcess ==
    /\ [](\A w \in Workers :
             /\ worker[w].loads <= 1
             /\ worker[w].model <=> worker[w].loads = 1)
    /\ [][\A w \in Workers :
             /\ worker'[w].loads > worker[w].loads =>
                   /\ worker[w].job # 0
                   /\ NeedsModel(w)
                   /\ ~worker[w].model
                   /\ worker'[w].loads = worker[w].loads + 1
             /\ (worker[w].model /\ ~Replaced(w)) =>
                   /\ worker'[w].model
                   /\ worker'[w].loads = worker[w].loads]_vars

C23_Witness ==
    /\ worker[1].loads = 1
    /\ worker[1].job = 0
    /\ Len(jobs) = 2
    /\ jobs[1].kind = "vectorize_all_entries"
    /\ jobs[2].kind = "vectorize_entry"
    /\ \E r \in jobs[1].retval : r.status = "success" /\ r.total_entries = 1
    /\ \E r \in jobs[2].retval : r.status = "success" /\ r.entry_id = 2

\* C24: a worker that executes no job holds no session; a session a worker
\* holds was opened by the job it executes; and the step in which a job
\* ends, with a result, an error payload or at the hard time limit, leaves
\* the worker without a session.
C24_SessionScopedToJob ==
    /\ [](\A w \in Workers :
             /\ worker[w].job = 0 => worker[w].db = 0
             /\ worker[w].db # 0 => worker[w].db = worker[w].job)
    /\ [][\A w \in Workers :
             (worker[w].job # 0 /\ worker'[w].job # worker[w].job) =>
                 /\ worker'[w].db = 0
                 /\ jobs'[worker[w].job].state \in {"SUCCESS", "FAILURE"}]_vars

C24_Witness ==
    /\ Len(jobs) = 2
    /\ jobs[1].state = "SUCCESS"
    /\ \E r \in jobs[1].retval : r.status = "error" /\ r.message = "commit failed"
    /\ worker[1].job = 2
    /\ worker[1].db = 2
    /\ worker[1].pc = "store"

Searched == out.op \in {"find_similar_entries", "semantic_search"} /\ out.code = 200

\* C25: for every corpus and every top_k, the list find_similar_entries or
\* semantic_search returns is sorted by non-increasing similarity score,
\* has at most top_k elements (none when top_k is not positive) and names
\* only entries with a stored embedding.
C25_SortedTruncatedEmbedded ==
    Searched =>
        LET res == out.results IN
        /\ \A i \in 1..(Len(res) - 1) :
              res[i].similarity_score >= res[i + 1].similarity_score
        /\ Len(res) <= (IF out.top_k > 0 THEN out.top_k ELSE 0)
        /\ \A i \in DOMAIN res :
              res[i].id \in DOMAIN entries /\ entries[res[i].id].embedding # 0

\* C26: in the list either search returns, every element is a candidate;
\* of two elements the one listed first has the higher score or, at equal
\* scores, stands first in the candidate pool; and every candidate left out
\* comes behind every element in that same order, so the list is the
\* beginning of the one order that pool and scores determine.
C26_TiesKeepPoolOrder ==
    Searched =>
        LET res == out.results
            pool == out.similarities
            Position(x) == CHOOSE k \in DOMAIN pool : pool[k].id = x.id
            Before(a, b) == \/ a.similarity_score > b.similarity_score
                            \/ /\ a.similarity_score = b.similarity_score
                               /\ Position(a) < Position(b)
        IN /\ \A i \in DOMAIN res : \E k \in DOMAIN pool : pool[k] = res[i]
           /\ \A i, j \in DOMAIN res : i < j => Before(res[i], res[j])
           /\ \A i \in DOMAIN res, k \in DOMAIN pool :
                 (\A j \in DOMAIN res : res[j] # pool[k]) => Before(res[i], pool[k])

C26_Witness ==
    /\ out.op = "semantic_search"
    /\ out.code = 200
    /\ Len(out.results) = 2
    /\ out.results[1].similarity_score = out.results[2].similarity_score
    /\ out.results[1].id > out.results[2].id
    /\ \E e \in DOMAIN entries :
          /\ entries[e].user = 1
          /\ entries[e].embedding # 0
          /\ \A i \in 1..2 : out.results[i].id # e

\* job k, a job other than j with the same task and argument, has succeeded
Vectorized(j) ==
    \E k \in DOMAIN jobs \ {j} :
       /\ jobs[k].kind = jobs[j].kind
       /\ jobs[k].arg = jobs[j].arg
       /\ jobs[k].state = "SUCCESS"
       /\ \E r \in jobs[k].retval : r.status = "success"

\* C27: while the texts stay as they are, a vectorize_entry that succeeded
\* leaves the embedding of the entry's text in its row, and every step of a
\* vectorization job executed when the same job has already succeeded
\* leaves all entries as they are; a vectorize_all_entries that starts after
\* the same job succeeded finds no entry to process and reports zero.
C27_RerunChangesNothing ==
    [][\A w \in Workers :
          LET j == worker[w].job IN
          (j # 0 /\ worker'[w] # worker[w]) =>
             /\ (/\ jobs[j].kind = "vectorize_entry"
                 /\ jobs'[j].state = "SUCCESS"
                 /\ \E r \in jobs'[j].retval : r.status = "success") =>
                    entries'[jobs[j].arg].embedding = Emb(entries[jobs[j].arg].content)
             /\ (jobs[j].kind \in {"vectorize_entry", "vectorize_all_entries"}
                   /\ Vectorized(j)) =>
                    entries' = entries
             /\ (/\ jobs[j].kind = "vectorize_all_entries"
                 /\ worker[w].pc = "start"
                 /\ Vectorized(j)) =>
                    /\ jobs'[j].state = "SUCCESS"
                    /\ \A r \in jobs'[j].retval :
                          r.status = "success" =>
                             r.total_entries = 0 /\ r.processed_count = 0]_vars

C27_Witness ==
    /\ Len(jobs) = 2
    /\ \A j \in 1..2 :
          /\ jobs[j].kind = "vectorize_all_entries"
          /\ jobs[j].arg = 1
          /\ jobs[j].state = "SUCCESS"
    /\ \E r \in jobs[1].retval : r.status = "success" /\ r.total_entries = 2
    /\ \E r \in jobs[2].retval : r.status = "success" /\ r.total_entries = 0
    /\ \A e \in DOMAIN entries : entries[e].embedding = Emb(entries[e].content)

\* C28: the list get_clustering_runs returns holds every run of the caller
\* once and no run of another user, and of two adjacent runs the one listed
\* first has a timestamp that is not older.
C28_OwnRunsNewestFirst ==
    out.op = "get_clustering_runs" =>
        LET res == out.runs IN
        /\ {res[i].id : i \in DOMAIN res} = {r.id : r \in {q \in runs : q.user = out.user}}
        /\ \A i, j \in DOMAIN res : res[i].id = res[j].id => i = j
        /\ \A i \in DOMAIN res :
              \E r \in runs : r.id = res[i].id /\ r.run_timestamp = res[i].run_timestamp
        /\ \A i \in 1..(Len(res) - 1) :
              res[i].run_timestamp >= res[i + 1].run_timestamp

C28_Witness ==
    /\ out.op = "get_clustering_runs"
    /\ Len(out.runs) = 2
    /\ out.runs[1].run_timestamp > out.runs[2].run_timestamp
    /\ out.runs[1].id > out.runs[2].id

\* the visualization of a run was answered with its points
Plotted == out.op = "get_cluster_visualization" /\ out.code = 200

\* C29: a point of the visualization of a run is named "Noise" when its
\* cluster index is -1; otherwise by the topic label of the Cluster row of
\* that run and index when the row has a label; otherwise "Cluster {index}".
\* The Cluster rows of other runs play no part.
C29_NameFromOwnRun ==
    Plotted =>
        \A i \in DOMAIN out.points :
           LET pt == out.points[i]
               rows == {k \in clusters : k.run = out.run_id
                                            /\ k.cluster_id = pt.cluster_id}
               labels == UNION {k.topic_label : k \in rows} \ {""}
           IN IF pt.cluster_id = -1
              THEN pt.cluster_name = [text |-> "Noise", arg |-> {}]
              ELSE IF labels # {}
              THEN pt.cluster_name.text \in labels /\ pt.cluster_name.arg = {}
              ELSE pt.cluster_name = [text |-> "Cluster", arg |-> {pt.cluster_id}]

C29_Witness ==
    /\ Plotted
    /\ out.run_id = 2
    /\ \E i \in DOMAIN out.points :
          /\ out.points[i].cluster_id = 0
          /\ out.points[i].cluster_name = [text |-> "Cluster", arg |-> {0}]
    /\ \E k \in clusters : k.run = 1 /\ k.cluster_id = 0 /\ k.topic_label = {"topic"}
    /\ \E k \in clusters : k.run = 2 /\ k.cluster_id = 0 /\ k.topic_label = {}

\* C30: the visualization of a run has one point for each entry that has an
\* assignment in the run and an embedding, and no other point; the point of
\* an entry with a primary assignment carries the cluster index and the
\* probability of that assignment.
C30_OnePointPerAssignedEntry ==
    Plotted =>
        LET pts == out.points
            InRun(e) == {a \in assignments : a.run = out.run_id /\ a.entry = e}
        IN /\ {pts[i].entry_id : i \in DOMAIN pts} =
                 {e \in DOMAIN entries : entries[e].embedding # 0 /\ InRun(e) # {}}
           /\ \A i, j \in DOMAIN pts : pts[i].entry_id = pts[j].entry_id => i = j
           /\ \A i \in DOMAIN pts : \A a \in InRun(pts[i].entry_id) :
                 a.is_primary =>
                    /\ pts[i].cluster_id = a.cluster_id
                    /\ pts[i].membership_probability = a.membership_probability

C30_Witness ==
    /\ Plotted
    /\ Len(out.points) = 2
    /\ \E i \in DOMAIN out.points :
          \E a, b \in assignments :
             /\ a.run = out.run_id /\ b.run = out.run_id
             /\ a.entry = out.points[i].entry_id /\ b.entry = a.entry
             /\ a.is_primary /\ ~b.is_primary
             /\ a.cluster_id > b.cluster_id
             /\ out.points[i].cluster_id = a.cluster_id

\* C31: a step of get_cluster_visualization leaves every run, cluster,
\* assignment and entry row (and the queue) as it was, and the cluster index
\* and probability of each point it emits are those of one assignment row
\* of the run for the point's entry.
C31_VisualizationWritesNothing ==
    [][out'.op = "get_cluster_visualization" =>
          /\ UNCHANGED <<entries, jobs, runs, clusters, assignments>>
          /\ out'.code = 200 =>
                \A i \in DOMAIN out'.points :
                   \E a \in assignments :
                      /\ a.run = out'.run_id
                      /\ a.entry = out'.points[i].entry_id
                      /\ a.cluster_id = out'.points[i].cluster_id
                      /\ a.membership_probability =
                            out'.points[i].membership_probability]_vars

C31_Witness ==
    /\ Plotted
    /\ out.run_id = 2
    /\ \E i, j \in DOMAIN out.points :
          /\ out.points[i].cluster_id = -1
          /\ out.points[j].cluster_id = 1
    /\ \E a \in assignments : a.run = 2 /\ ~a.is_primary

\* the stored state and the queue
Stored == <<entries, jobs, upd, runs, clusters, assignments>>

\* C32: a step of get_entry, update_entry, embed_entry or
\* find_similar_entries of user 1 that names an entry which is missing or of
\* another user, and a step of get_cluster_visualization that names such a
\* run, answers 404, changes no stored state and enqueues no job.
C32_NotFoundChangesNothing ==
    [][/\ \A e \in 1..MaxEntries :
             (/\ ~Owned(1, e)
              /\ \/ get_entry(1, e)
                 \/ update_entry_enqueue(1, e, 2)
                 \/ embed_entry(1, e)
                 \/ \E other_entries \in Perms(OtherEntries(1, e)) :
                       find_similar_entries(1, e, 5, other_entries)) =>
                /\ out'.code = 404
                /\ UNCHANGED Stored
       /\ \A id \in 1..MaxJobs :
             (/\ ~\E r \in runs : r.id = id /\ r.user = 1
              /\ get_cluster_visualization(1, id)) =>
                /\ out'.code = 404
                /\ UNCHANGED Stored]_vars

C32_Witness ==
    /\ out.op = "get_cluster_visualization"
    /\ out.code = 404
    /\ \E r \in runs : r.id = out.run_id /\ r.user = 2
    /\ Len(entries) = 2
    /\ entries[2].embedding # 0

\* C33: the text vectorize_entry hands to the embedding service is never
\* longer than the service's maximum supported length.
C33_TextWithinMaxLength ==
    \A w \in Workers :
       Running(w, "vectorize_entry", "store") =>
          \A i \in DOMAIN worker[w].texts : Chars(worker[w].texts[i]) <= max_length

\* C34: the entries a vectorize_all_entries job of user u fetches are
\* entries of u without an embedding; a step of the job changes no field
\* but the embedding, and that of fetched entries only; and when the job
\* succeeds while nobody creates entries, u has no entry without an
\* embedding.
C34_BatchWritesOwnMissingOnly ==
    [][\A w \in Workers :
          (Running(w, "vectorize_all_entries", worker[w].pc)
             /\ worker'[w] # worker[w]) =>
             LET j == worker[w].job
                 u == jobs[j].arg
                 fetched == {worker[w].ids[i] : i \in DOMAIN worker[w].ids}
             IN /\ worker'[w].pc = "store" =>
                      /\ entries' = entries
                      /\ \A i \in DOMAIN worker'[w].ids :
                            /\ Owned(u, worker'[w].ids[i])
                            /\ entries[worker'[w].ids[i]].embedding = 0
                /\ DOMAIN entries' = DOMAIN entries
                /\ \A e \in DOMAIN entries :
                      /\ entries'[e].user = entries[e].user
                      /\ entries'[e].content = entries[e].content
                      /\ entries'[e].embedding # entries[e].embedding =>
                            e \in fetched /\ entries[e].user = u
                /\ (\E r \in jobs'[j].retval : r.status = "success") =>
                      \A e \in DOMAIN entries' :
                         entries'[e].user = u => entries'[e].embedding # 0]_vars

C34_Witness ==
    /\ entries[1].user = 1 /\ entries[1].embedding = Emb(1)
    /\ entries[2].user = 2 /\ entries[2].embedding = 0
    /\ \E j \in DOMAIN jobs :
          /\ jobs[j].kind = "vectorize_all_entries"
          /\ jobs[j].arg = 1
          /\ \E r \in jobs[j].retval : r.status = "success" /\ r.total_entries = 1

\* the job has come to an end without an error
EndedWell(j) ==
    /\ jobs[j].state = "SUCCESS"
    /\ \E r \in jobs[j].retval : r.status = "success"

C36_ResultIsOwnRun ==
    [][\A w \in Workers :
          Running(w, "run_clustering", "latest") =>
             \A r \in jobs'[worker[w].job].retval :
                r.status = "success" =>
                   \E own \in runs :
                      /\ own.id = worker[w].run
                      /\ r.run_id = own.id
                      /\ r.num_entries = own.num_entries
                      /\ r.num_clusters = own.num_clusters
                      /\ r.noise_entries = own.noise_entries]_vars

\* C37: when no update_entry request is between its enqueue and its commit
\* and every vectorization job enqueued for an entry has ended without an
\* error, the stored embedding is the embedding of the entry's content.
C37_EmbeddingOfLatestContent ==
    \A e \in DOMAIN entries :
       (/\ upd = {}
        /\ \E j \in DOMAIN jobs : jobs[j].arg = e
        /\ \A j \in DOMAIN jobs : jobs[j].arg = e => EndedWell(j)) =>
          entries[e].embedding = Emb(entries[e].content)

\* C38: in the serving process each model is constructed at most once.
C38_ModelsLoadedOnce ==
    /\ server.loads.emotion_classifier <= 1
    /\ server.loads.embedding_model <= 1

\* the user for whom job j works
JobUser(j) ==
    IF jobs[j].kind = "vectorize_entry" THEN entries[jobs[j].arg].user
    ELSE IF jobs[j].kind = "vectorize_all_entries" THEN jobs[j].arg
    ELSE jobs[j].arg.user

\* the rows of user u: what the reading operations answer u from
RowsOfUser(u) ==
    LET own == {r.id : r \in {q \in runs : q.user = u}} IN
    <<{<<e, entries[e]>> : e \in {d \in DOMAIN entries : entries[d].user = u}},
      {r \in runs : r.user = u},
      {k \in clusters : k.run \in own},
      {a \in assignments : a.run \in own}>>

\* C39: every entry, run, cluster and point that a reading operation returns
\* to user 1 is a row of user 1, and the rows of user 1 change only in steps
\* of user 1's own requests and jobs: no step of another user's request or
\* job changes what user 1 is answered from.
C39_ReadsOwnRowsOnly ==
    /\ [](/\ out.op \in {"get_entries", "get_entry"} =>
              \A i \in DOMAIN out.entries :
                 Owned(1, out.entries[i].id) /\ out.entries[i].user_id = 1
          /\ out.op \in {"find_similar_entries", "semantic_search"} =>
              \A i \in DOMAIN out.results : Owned(1, out.results[i].id)
          /\ out.op = "get_clustering_runs" =>
              \A i \in DOMAIN out.runs :
                 \E r \in runs : r.id = out.runs[i].id /\ r.user = 1
          /\ out.op = "get_cluster_visualization" =>
              /\ \A i \in DOMAIN out.points : Owned(1, out.points[i].entry_id)
              /\ out.code = 200 =>
                    /\ \E r \in runs : r.id = out.run_id /\ r.user = 1
                    /\ \A c \in out.clusters :
                          \E k \in clusters :
                             /\ k.run = out.run_id
                             /\ ClusterInfoResponse(k) = c)
    /\ [][RowsOfUser(1)' # RowsOfUser(1) =>
             \E w \in Workers :
                /\ worker[w].job # 0
                /\ worker'[w] # worker[w]
                /\ JobUser(worker[w].job) = 1]_vars

C39_Witness ==
    /\ out.op = "get_entries"
    /\ Len(out.entries) = 1
    /\ entries[2].embedding # 0
    /\ \E r \in runs : r.user = 2
    /\ \E r \in runs : r.user = 1

\* C40: a poll by user u of a job that another user submitted returns no
\* result payload of that job.
C40_PollOwnJobsOnly ==
    [][\A u \in Users, tid \in DOMAIN jobs :
          (JobUser(tid) # u /\ get_task_status_as(u, tid)) =>
             out'.result \cap jobs[tid].retval = {}]_vars

====
